---- MODULE Spec2Model ----
(***************************************************************************)
(* Model of the AOSC OS installer (aoscdk-rs).                             *)
(*                                                                         *)
(*   - the wizard of src/src/frontend/tui.rs: a stack of dialog layers,    *)
(*     each holding the InstallConfig its callbacks captured, up to the    *)
(*     hand-over of the request (specification SpecWizard);                *)
(*   - start_install of tui.rs: the worker thread, the cancellation        *)
(*     watcher thread, the progress consumer thread and the UI thread      *)
(*     draining the callback sink (specification Spec);                    *)
(*   - the mount / chroot operations of src/src/install.rs;                *)
(*   - begin_install of src/src/main.rs (the UI-thread pipeline with a     *)
(*     background download task), under the specification SpecMain;        *)
(*   - the functions of src/src/disks.rs and of src/src/install.rs on      *)
(*     their own, each applied to arguments drawn from bounded sets        *)
(*     (specification SpecFn).                                             *)
(*                                                                         *)
(* Sizes are in GiB.  Strings of the program that carry no logic (names,   *)
(* URLs, passwords) are abstracted to "is it set".                         *)
(***************************************************************************)
EXTENDS Integers, Sequences, FiniteSets, TLC

(***************************************************************************)
(* Bounds of the model and the probed hardware.                            *)
(***************************************************************************)
\* release variants offered by the manifest
NVariants == 2
\* partitions found on the probed disk
NParts == 4
\* confirmations of the abort dialog ("Yes") the operator may give
MaxCancel == 1
MaxLayers == 3
MaxInFlight == 2

Variants == 1..NVariants
PartIds == 1..NParts

\* VariantEntry.install_size of variant v
install_size(v) == 2 * v

\* Partition.size of the i-th probed partition
PartSize(i) == 4 * i - 2

\* Filesystem signature probed on the i-th partition ("none": no signature)
PartFs(i) ==
    CASE i % 4 = 1 -> "ext4"
      [] i % 4 = 2 -> "btrfs"
      [] i % 4 = 3 -> "none"
      [] OTHER     -> "ntfs"

\* path of the disk and of its partitions as libparted reports them
DevicePath == <<"dev">>
PartPath(i) == <<"dev", i>>

ALLOWED_FS_TYPE == {"ext4", "xfs", "btrfs", "f2fs"}
DEFAULT_FS_TYPE == "ext4"

(***************************************************************************)
(* InstallConfig and the dialog layers.                                    *)
(***************************************************************************)
NoPart == [id |-> 0, fs |-> "none"]

\* InstallConfig::default()
DefaultConfig ==
    [variant |-> 0, mirror |-> FALSE, part |-> NoPart, user |-> FALSE,
     hostname |-> FALSE, locale |-> FALSE, swap |-> 0]

NoFile == [variant |-> -1]

\* no pure function was called yet
NoCall == [f |-> "none", args |-> <<>>, done |-> FALSE, out |-> <<>>]

Layer(kind, cfg, sel) == [k |-> kind, c |-> cfg, sel |-> sel]

Push(s, l) == Append(s, l)
Pop(s) == IF s = <<>> THEN s ELSE SubSeq(s, 1, Len(s) - 1)

VARIABLES
    layers,     \* cursive's layer stack, top last
    lastCfg,    \* content of LAST_USER_CONFIG_FILE, or NoFile
    efi,        \* is_efi_booted()
    table,      \* partition table kind of the disk
    alive,      \* the process is running
    req,        \* the InstallConfig handed to the pipeline
    wpc,        \* worker thread: the pipeline step in progress
    wres,       \* worker thread: result of begin_install
    wAnchor,    \* worker thread: its own escape anchor is captured
    stepsDone,  \* history: pipeline steps completed, in order
    chan,       \* progress channel: events sent and not yet received
    txOpen,     \* the progress Sender is alive
    sent,       \* history: every progress event emitted
    applied,    \* history: every progress event the consumer handled
    cpc,        \* progress consumer thread
    cerr,       \* progress consumer: the error taken from join
    xpc,        \* cancellation watcher thread
    intr,       \* user_interrup channel: messages in flight
    nCancel,    \* history: confirmations of the abort dialog
    cancelAt,   \* history: pipeline step in progress at the first confirmation
    cbq,        \* cursive callback sink
    ms,         \* Mount Session: process root and active mounts
    umountCalls,\* history: invocations of umount_all
    surfaced,   \* error dialog shown to the operator
    guestOps,   \* history: roots under which chroot-context operations ran
    mpc,        \* main.rs begin_install: position of the UI thread
    tpc,        \* main.rs begin_install: position of the download task
    download_done,
    extract_done,
    distance,   \* main.rs: result of get_root_distance
    mSteps,     \* history: steps main.rs begin_install completed
    call        \* the last call of a pure function: name, arguments, result

wizardVars == <<layers, lastCfg>>
envVars == <<efi, table, call>>
tuiVars == <<req, wpc, wres, wAnchor, stepsDone, chan, txOpen, sent, applied,
             cpc, cerr, xpc, intr, nCancel, cancelAt, cbq, umountCalls,
             guestOps>>
mainVars == <<mpc, tpc, download_done, extract_done, distance, mSteps>>
vars == <<layers, lastCfg, efi, table, alive, req, wpc, wres, wAnchor,
          stepsDone, chan, txOpen, sent, applied, cpc, cerr, xpc, intr,
          nCancel, cancelAt, cbq, ms, umountCalls, surfaced, guestOps,
          mpc, tpc, download_done, extract_done, distance, mSteps, call>>

Top == layers[Len(layers)]
OnTop(kind) == alive /\ layers # <<>> /\ Top.k = kind

(***************************************************************************)
(* disks.rs: pure functions used by the wizard.                            *)
(***************************************************************************)
\* get_recommended_fs_type returning DEFAULT_FS_TYPE whatever it is given
get_recommended_fs_type_default_only(type) == DEFAULT_FS_TYPE

\* get_recommended_fs_type(type_): the entry of ALLOWED_FS_TYPE equal to
\* type_, DEFAULT_FS_TYPE when there is none
get_recommended_fs_type(type) ==
    IF type \in ALLOWED_FS_TYPE THEN type ELSE DEFAULT_FS_TYPE

\* fill_fs_type returning its argument when the partition has a filesystem
fill_fs_type_keep_kind(part, use_ext4) ==
    IF part.fs # "none" THEN part ELSE [part EXCEPT !.fs = DEFAULT_FS_TYPE]

\* fill_fs_type(part, use_ext4): a clone of part with fs_type replaced; the
\* path, parent path and size of a partition are those of its id, and the
\* filesystem "none" is fs_type = None
fill_fs_type(part, use_ext4) ==
    [part EXCEPT !.fs =
        IF part.fs # "none"
        THEN (IF ~use_ext4 THEN get_recommended_fs_type(part.fs)
              ELSE DEFAULT_FS_TYPE)
        ELSE DEFAULT_FS_TYPE]

\* part.type_get_name() of partition i
PartType(i) == IF i % 2 = 1 THEN "primary" ELSE "logical"

\* mbr_is_primary_partition(device_path): "ok", or the error it returns.
\* The partition is looked up by comparing each partition's path with the
\* path it was given, which is the path of the parent device.
mbr_is_primary_partition(device_path, tbl) ==
    IF tbl # "msdos" THEN "ok"
    ELSE LET index == {i \in PartIds : PartPath(i) = device_path}
         IN  IF index = {} THEN "not_found"
             ELSE IF PartType(CHOOSE i \in index : TRUE) # "primary"
             THEN "non_primary"
             ELSE "ok"

\* right_combine accepting a GPT table on any firmware
right_combine_gpt_anywhere(tbl, is_efi_booted) ==
    IF tbl = "gpt" \/ (tbl = "msdos" /\ ~is_efi_booted)
    THEN "ok" ELSE "mismatch"

\* right_combine (not powerpc64), on the table type get_partition_table_type
\* found and is_efi_booted()
right_combine(tbl, is_efi_booted) ==
    IF (tbl = "gpt" /\ is_efi_booted) \/ (tbl = "msdos" /\ ~is_efi_booted)
    THEN "ok" ELSE "mismatch"

\* the three names right_combine puts into the text of its error:
\* "... ({table} partition map on a {firmware}-based device). Please use a
\* {right} partition map for your {firmware}-based device."
right_combine_error(tbl, is_efi_booted) ==
    LET bios_efi_s == IF is_efi_booted THEN "EFI" ELSE "BIOS"
        right == IF is_efi_booted THEN "GPT" ELSE "BIOS"
    IN  [table |-> tbl, firmware |-> bios_efi_s, right |-> right]

(***************************************************************************)
(* Swap sizing (disks.rs) and the free-space test of the swap dialogs.     *)
(***************************************************************************)
\* installed memory in whole GiB (sysinfo total_memory / 1024^3)
MemGiB == 1
\* largest custom swapfile size (GiB) the operator types
MaxCustomSwap == 2

\* DEFAULT_EMPTY_SIZE of frontend/mod.rs, in GiB
DEFAULT_EMPTY_SIZE == 5

\* 2^64 bytes in GiB, cut to 32-bit integers: a value above every size of
\* the model
U64_SPAN == 2 ^ 30

\* a - b on u64 (release build: wrapping)
WrappingSub(a, b) == IF a >= b THEN a - b ELSE U64_SPAN + a - b

\* the three pieces of the formula of get_recommand_swap_size, in
\* millionths of a GiB, for men whole GiB of memory
swap_size_piece(piece, men) ==
    CASE piece = 1 -> 1300000 * men + 700000
      [] piece = 2 -> 1154300 * men + 1363280
      [] piece = 3 -> 1009945 * men + 16087529

\* f64::round of a non-negative number of millionths: to the nearest whole,
\* halves away from zero
round(millionths) == (millionths + 500000) \div 1000000

\* get_recommand_swap_size with the second piece ending before 32 GiB
get_recommand_swap_size_open_at_32(men) ==
    round(IF men <= 5 THEN swap_size_piece(1, men)
          ELSE IF men < 32 THEN swap_size_piece(2, men)
          ELSE swap_size_piece(3, men))

\* get_recommand_swap_size(), in GiB, for men = total_memory / 1024^3
get_recommand_swap_size(men) ==
    LET swap_size == IF men <= 5 THEN swap_size_piece(1, men)
                     ELSE IF men > 5 /\ men <= 32 THEN swap_size_piece(2, men)
                     ELSE swap_size_piece(3, men)
    IN  round(swap_size)

\* sizes finer than a GiB are counted in MiB
MiBPerGiB == 1024

\* is_enable_hibernation answering "true" only above the recommended size
is_enable_hibernation_mib_above(custom_size, total_memory) ==
    LET recommand_size ==
            get_recommand_swap_size(total_memory \div MiBPerGiB) * MiBPerGiB
    IN  IF custom_size >= recommand_size - total_memory
           /\ custom_size <= recommand_size
        THEN "false"
        ELSE IF custom_size > recommand_size THEN "true"
        ELSE "too_small"

\* is_enable_hibernation(custom_size) on a machine with total_memory of
\* memory, both in MiB: "true", "false" or "too_small" (the error)
is_enable_hibernation_mib(custom_size, total_memory) ==
    LET men == total_memory
        recommand_size ==
            get_recommand_swap_size(total_memory \div MiBPerGiB) * MiBPerGiB
        no_hibernation_size == recommand_size - men
    IN  IF custom_size >= no_hibernation_size /\ custom_size < recommand_size
        THEN "false"
        ELSE IF custom_size >= recommand_size THEN "true"
        ELSE "too_small"

\* is_enable_hibernation(custom_size), sizes in whole GiB
is_enable_hibernation(custom_size, men) ==
    is_enable_hibernation_mib(custom_size * MiBPerGiB, men * MiBPerGiB)

\* the test of auto_swap and custom_swap_size: TRUE when the size is refused
NotEnoughSpace(installed_size, swap, partition_size) ==
    installed_size + swap > WrappingSub(partition_size, DEFAULT_EMPTY_SIZE)

(***************************************************************************)
(* The wizard (tui.rs).  Each action is one button callback.  select_X     *)
(* pops the top layer and adds the layer of screen X.                      *)
(***************************************************************************)
Goto(stack, kind, cfg) == Push(Pop(stack), Layer(kind, cfg, 0))

\* the layer stack is followed up to MaxLayers layers
Fits(stack) == Len(stack) <= MaxLayers

WizardStep(newLayers) ==
    /\ Fits(newLayers)
    /\ layers' = newLayers
    /\ UNCHANGED <<lastCfg, envVars, alive, tuiVars, ms, surfaced, mainVars>>

Quit ==
    /\ alive' = FALSE
    /\ UNCHANGED <<wizardVars, envVars, tuiVars, ms, surfaced, mainVars>>

\* tui_main: "Let's Go"
WelcomeStart ==
    /\ OnTop("welcome")
    /\ IF lastCfg # NoFile
       THEN WizardStep(Goto(layers, "partition", lastCfg))
       ELSE WizardStep(Goto(layers, "variant", DefaultConfig))

\* build_variant_list: on_submit
VariantSubmit ==
    /\ OnTop("variant")
    /\ \E v \in Variants :
         WizardStep(Goto(layers, "mirrors", [Top.c EXCEPT !.variant = v]))

\* select_mirrors_view: "Continue"
MirrorsContinue ==
    /\ OnTop("mirrors")
    /\ LET config == [Top.c EXCEPT !.mirror = TRUE]
       IN  IF config.part # NoPart
           THEN WizardStep(Goto(layers, "user", config))
           ELSE WizardStep(Goto(layers, "partition", config))

\* select_mirrors_view: "Benchmark Mirrors", then "OK" or "Cancel"
MirrorsBenchmark ==
    /\ OnTop("mirrors")
    /\ WizardStep(Goto(layers, "benchmark", Top.c))

BenchmarkOK ==
    /\ OnTop("benchmark")
    /\ WizardStep(Goto(layers, "mirrors", Top.c))

BenchmarkCancel ==
    /\ OnTop("benchmark")
    /\ WizardStep(Goto(Pop(layers), "mirrors", Top.c))

\* select_mirrors_view and select_partition: "Back"
BackToVariant ==
    /\ OnTop("mirrors") \/ OnTop("partition")
    /\ WizardStep(Goto(Pop(layers), "variant", Top.c))

\* every "Exit" button
ExitButton ==
    /\ \E kind \in {"variant", "mirrors", "partition", "combine_err",
                    "lastcfg", "user", "hostname", "timezone", "swap"} :
         OnTop(kind)
    /\ Quit

\* partition_button: the list is probed again and the screen rebuilt
PartitionTool ==
    /\ OnTop("partition")
    /\ WizardStep(Goto(layers, "partition", Top.c))

\* continue_to_format_hdd: the format warning is laid over the stack
FormatWarning(stack, cfg) == Push(stack, Layer("fmt_warn", cfg, 0))

\* the callback taking the partition without the format warning
PartitionContinueTo_NoFormatWarning(p) ==
    IF PartSize(p) < install_size(Top.c.variant)
    THEN Push(layers, Layer("msg", Top.c, 0))
    ELSE Goto(layers, "user",
              [Top.c EXCEPT
                  !.part = fill_fs_type([id |-> p, fs |-> PartFs(p)], TRUE)])

\* the callback without the message of a failed mbr_is_primary_partition
PartitionContinueTo_SilentPrimaryCheck(p) ==
    LET config == Top.c
        current_partition == [id |-> p, fs |-> PartFs(p)]
    IN  IF PartSize(p) < install_size(config.variant)
        THEN Push(layers, Layer("msg", config, 0))
        ELSE IF right_combine(table, efi) # "ok"
        THEN Push(layers, Layer("combine_err", config, 0))
        ELSE IF current_partition.fs # "ext4"
                /\ current_partition.fs \in ALLOWED_FS_TYPE
        THEN Push(layers, Layer("fs_keep", config, p))
        ELSE IF current_partition.fs \in {"none", "ext4"}
        THEN FormatWarning(layers,
               [config EXCEPT !.part = fill_fs_type(current_partition, TRUE)])
        ELSE Push(layers, Layer("fs_adv", config, p))

\* The "Continue" callback of select_partition, for the selected radio
\* button p, as a function from the stack to the new stack.
PartitionContinueTo(p) ==
    LET config == Top.c
        required_size == install_size(config.variant)
        current_partition == [id |-> p, fs |-> PartFs(p)]
        primary == mbr_is_primary_partition(DevicePath, table)
        s1 == IF primary # "ok"
              THEN Push(layers, Layer("msg", config, 0)) ELSE layers
    IN  IF PartSize(p) < required_size
        THEN Push(layers, Layer("msg", config, 0))
        ELSE IF right_combine(table, efi) # "ok"
        THEN Push(s1, Layer("combine_err", config, 0))
        ELSE IF current_partition.fs # "none"
        THEN IF current_partition.fs # "ext4"
                /\ current_partition.fs \in ALLOWED_FS_TYPE
             THEN Push(s1, Layer("fs_keep", config, p))
             ELSE IF current_partition.fs = "ext4"
             THEN FormatWarning(s1,
                    [config EXCEPT
                        !.part = fill_fs_type(current_partition, TRUE)])
             ELSE Push(s1, Layer("fs_adv", config, p))
        ELSE FormatWarning(s1,
               [config EXCEPT !.part = fill_fs_type(current_partition, TRUE)])

PartitionContinue ==
    /\ OnTop("partition")
    /\ Top.c.variant # 0
    /\ \E p \in PartIds : WizardStep(PartitionContinueTo(p))

\* show_msg: "OK"; the dialog of a right_combine error: "OK"
DialogOK ==
    /\ OnTop("msg") \/ OnTop("combine_err")
    /\ WizardStep(Pop(layers))

\* "Use <fs>" of the dialog SURE_FS_TYPE_INFO
FsKeepUseFs ==
    /\ OnTop("fs_keep")
    /\ LET new_part == fill_fs_type([id |-> Top.sel, fs |-> PartFs(Top.sel)],
                                    FALSE)
       IN  WizardStep(FormatWarning(Pop(layers),
                                    [Top.c EXCEPT !.part = new_part]))

\* "Use Ext4" of the dialog SURE_FS_TYPE_INFO (the dialog stays below)
FsKeepUseExt4 ==
    /\ OnTop("fs_keep")
    /\ LET new_part == fill_fs_type([id |-> Top.sel, fs |-> PartFs(Top.sel)],
                                    TRUE)
       IN  WizardStep(FormatWarning(layers, [Top.c EXCEPT !.part = new_part]))

\* "OK" of the dialog ADVANCED_METHOD_INFO
FsAdvOK ==
    /\ OnTop("fs_adv")
    /\ LET new_part == fill_fs_type([id |-> Top.sel, fs |-> PartFs(Top.sel)],
                                    TRUE)
       IN  WizardStep(FormatWarning(Pop(layers),
                                    [Top.c EXCEPT !.part = new_part]))

\* "Cancel" of the filesystem dialogs, the format warning, the custom swap
\* dialog and the summary: the layer is popped
DialogCancel ==
    /\ \E kind \in {"fs_keep", "fs_adv", "fmt_warn", "swap_custom",
                    "summary"} : OnTop(kind)
    /\ WizardStep(Pop(layers))

\* continue_to_format_hdd: "OK", that is partition_view_to_next
FormatWarningOK ==
    /\ OnTop("fmt_warn")
    /\ IF Top.c.user
       THEN WizardStep(Goto(Pop(layers), "lastcfg", Top.c))
       ELSE WizardStep(Goto(Pop(layers), "user", Top.c))

\* show_summary unwraps these fields of the configuration
SummaryComplete(cfg) ==
    cfg.variant # 0 /\ cfg.mirror /\ cfg.user /\ cfg.locale

\* show_summary(config): the summary is laid over the stack, or the
\* process panics on a field that is not set
ShowSummary(stack, cfg) ==
    IF SummaryComplete(cfg)
    THEN /\ Fits(Push(stack, Layer("summary", cfg, 0)))
         /\ layers' = Push(stack, Layer("summary", cfg, 0))
         /\ alive' = alive
    ELSE /\ layers' = stack
         /\ alive' = FALSE

\* is_use_last_config: "Yes"
LastConfigYes ==
    /\ OnTop("lastcfg")
    /\ ShowSummary(layers, Top.c)
    /\ UNCHANGED <<lastCfg, envVars, tuiVars, ms, surfaced, mainVars>>

\* is_use_last_config: "No"
LastConfigNo ==
    /\ OnTop("lastcfg")
    /\ layers' = Goto(layers, "variant",
                      [DefaultConfig EXCEPT !.part = Top.c.part])
    /\ lastCfg' = NoFile
    /\ UNCHANGED <<envVars, alive, tuiVars, ms, surfaced, mainVars>>

\* select_user_password / select_hostname / select_timezone: "Continue"
\* with input the validators accept, or a message when they refuse it
FormContinue ==
    \/ /\ OnTop("user")
       /\ WizardStep(Goto(layers, "hostname", [Top.c EXCEPT !.user = TRUE]))
    \/ /\ OnTop("hostname")
       /\ WizardStep(Goto(layers, "timezone",
                          [Top.c EXCEPT !.hostname = TRUE]))
    \/ /\ OnTop("timezone")
       /\ WizardStep(Goto(layers, "swap", [Top.c EXCEPT !.locale = TRUE]))
    \/ /\ OnTop("user") \/ OnTop("hostname")
       /\ WizardStep(Push(layers, Layer("msg", Top.c, 0)))

\* "Back" of the user, hostname, timezone and swap screens
FormBack ==
    \/ /\ OnTop("user")
       /\ WizardStep(Goto(Pop(layers), "partition", Top.c))
    \/ /\ OnTop("hostname")
       /\ WizardStep(Goto(Pop(layers), "user", Top.c))
    \/ /\ OnTop("timezone")
       /\ WizardStep(Goto(Pop(layers), "hostname", Top.c))
    \/ /\ OnTop("swap")
       /\ WizardStep(Goto(Pop(layers), "timezone", Top.c))

\* select_swap: "Continue" with "Automatic" selected (auto_swap)
SwapAuto ==
    /\ OnTop("swap")
    /\ LET auto_size == get_recommand_swap_size(MemGiB)
       IN  IF NotEnoughSpace(install_size(Top.c.variant), auto_size,
                             PartSize(Top.c.part.id))
           THEN /\ Fits(Push(layers, Layer("msg", Top.c, 0)))
                /\ layers' = Push(layers, Layer("msg", Top.c, 0))
                /\ alive' = alive
           ELSE ShowSummary(layers, [Top.c EXCEPT !.swap = auto_size])
    /\ UNCHANGED <<lastCfg, envVars, tuiVars, ms, surfaced, mainVars>>

\* select_swap: "Continue" with "Custom" selected (custom_swap_size)
SwapCustom ==
    /\ OnTop("swap")
    /\ WizardStep(Push(layers, Layer("swap_custom", Top.c, 0)))

\* custom_swap_size: "OK" with the size typed, in GiB
SwapCustomOK ==
    /\ OnTop("swap_custom")
    /\ \E size \in 0..MaxCustomSwap :
         IF \/ NotEnoughSpace(install_size(Top.c.variant), size,
                              PartSize(Top.c.part.id))
            \/ is_enable_hibernation(size, MemGiB) = "too_small"
         THEN /\ Fits(Push(layers, Layer("msg", Top.c, 0)))
              /\ layers' = Push(layers, Layer("msg", Top.c, 0))
              /\ alive' = alive
         ELSE ShowSummary(layers, [Top.c EXCEPT !.swap = size])
    /\ UNCHANGED <<lastCfg, envVars, tuiVars, ms, surfaced, mainVars>>

\* select_swap: "Continue" with "Disabled" selected (disable_swap)
SwapDisabled ==
    /\ OnTop("swap")
    /\ ShowSummary(layers, [Top.c EXCEPT !.swap = 0])
    /\ UNCHANGED <<lastCfg, envVars, tuiVars, ms, surfaced, mainVars>>

\* save_user_config_to_file(config, path): the partition is dropped;
\* LAST_USER_CONFIG_FILE is created empty before path is written
save_user_config_to_file(config, toLast) ==
    IF toLast THEN [config EXCEPT !.part = NoPart] ELSE NoFile

\* show_summary: "Save Configuration"
SummarySave ==
    /\ OnTop("summary")
    /\ Fits(Push(layers, Layer("msg", Top.c, 0)))
    /\ lastCfg' = save_user_config_to_file(Top.c, FALSE)
    /\ layers' = Push(layers, Layer("msg", Top.c, 0))
    /\ UNCHANGED <<envVars, alive, tuiVars, ms, surfaced, mainVars>>

(***************************************************************************)
(* Mount and chroot operations (install.rs) on the Mount Session           *)
(*   ms = [root, rootMnt, efiMnt, binds, swap]                             *)
(* root is the process root: "host", "guest", or "other" (a directory that *)
(* is neither).  The session's paths are host paths: they resolve only     *)
(* while the process root is the host root.                                *)
(***************************************************************************)
BIND_MOUNTS == <<"/dev", "/proc", "/sys", "/run/udev">>
BindIds == 1..Len(BIND_MOUNTS)

CleanSession ==
    [root |-> "host", rootMnt |-> FALSE, efiMnt |-> FALSE, binds |-> {},
     swap |-> FALSE]

\* What fchdir(root_fd) can do when root_fd is the number of a descriptor
\* that was closed: fail (EBADF, ENOTDIR), or succeed on whatever directory
\* the number names by then.
StaleFdOutcomes == {"fail", "host", "other"}

\* start_install: root_fd is the raw descriptor of a Dir dropped at the end
\* of the closure passed to map
start_install_root_fd == "stale"

\* escape_chroot(root_fd): fchdir, chroot("."), chdir("/")
escape_chroot(m, root_fd, outcome) ==
    IF root_fd = "valid" THEN [m EXCEPT !.root = "host"]
    ELSE IF outcome = "fail" THEN m
    ELSE [m EXCEPT !.root = outcome]

\* umount_root_path(root): umount2(root, MNT_DETACH), which also detaches
\* what is mounted below root
umount_root_path(m, which) ==
    IF m.root # "host" THEN m
    ELSE IF which = "efi"
    THEN [m EXCEPT !.efiMnt = FALSE]
    ELSE IF m.rootMnt
    THEN [m EXCEPT !.rootMnt = FALSE, !.efiMnt = FALSE, !.binds = {}]
    ELSE m

\* swapoff(tempdir)
swapoff(m) == IF m.root = "host" THEN [m EXCEPT !.swap = FALSE] ELSE m

\* mount_root_path(partition, target): the guard, then mount(2)
mount_root_path_ok(part) == part.fs # "none" /\ part.id # 0

\* setup_bind_mounts(root), the first k paths mounted (k < 4: the k+1st
\* mount failed and the function returned the error)
setup_bind_mounts(m, k) == [m EXCEPT !.binds = m.binds \cup (1..k)]

\* the calls of mount::mount that setup_bind_mounts(root) makes when its
\* first k mounts succeed: source is the path itself, the target is root
\* with the path less its leading "/" pushed, that is the same path below
\* root
bind_mount_calls(k) ==
    [i \in 1..k |->
        [source |-> BIND_MOUNTS[i],
         target |-> [below |-> "root", path |-> BIND_MOUNTS[i]],
         flags  |-> {"MS_BIND"}]]

\* remove_bind_mounts(root): unmounts in order, returns at the first error
remove_bind_mounts(m) ==
    IF m.root # "host" THEN m
    ELSE LET firstMissing ==
               IF \E i \in BindIds : i \notin m.binds
               THEN CHOOSE i \in BindIds :
                      /\ i \notin m.binds
                      /\ \A j \in BindIds : j < i => j \in m.binds
               ELSE Len(BIND_MOUNTS) + 1
         IN  [m EXCEPT !.binds = m.binds \ (1..(firstMissing - 1))]

\* the paths remove_bind_mounts(root) hands to umount2, in order: the loop
\* body is umount2(..)?, so the call that fails is the last one made
remove_bind_mounts_calls(m) ==
    LET failing == {i \in BindIds : m.root # "host" \/ i \notin m.binds}
        last    == IF failing = {} THEN Len(BIND_MOUNTS)
                   ELSE CHOOSE i \in failing : \A j \in failing : i <= j
    IN  [i \in 1..last |-> BIND_MOUNTS[i]]

\* dive_into_guest(root): setup_bind_mounts(root)?, chroot(root)?
dive_into_guest(m, k) ==
    LET m1 == setup_bind_mounts(m, k)
    IN  IF m.root # "host" THEN m
        ELSE IF k < Len(BIND_MOUNTS) THEN m1
        ELSE [m1 EXCEPT !.root = "guest"]

\* umount_all(mount_path, root_fd), one of its four statements at a time
UmountAllStep(m, pc, root_fd, outcome) ==
    CASE pc = "ua_escape" -> escape_chroot(m, root_fd, outcome)
      [] pc = "ua_efi"    -> IF efi THEN umount_root_path(m, "efi") ELSE m
      [] pc = "ua_swap"   -> swapoff(m)
      [] pc = "ua_root"   -> umount_root_path(m, "root")

UmountAllPcs == {"ua_escape", "ua_efi", "ua_swap", "ua_root"}

\* umount_all unmounting the root mount before swapoff
UmountAllNext_RootBeforeSwap(pc, after) ==
    CASE pc = "ua_escape" -> "ua_efi"
      [] pc = "ua_efi"    -> "ua_root"
      [] pc = "ua_root"   -> "ua_swap"
      [] pc = "ua_swap"   -> after

UmountAllNext(pc, after) ==
    CASE pc = "ua_escape" -> "ua_efi"
      [] pc = "ua_efi"    -> "ua_swap"
      [] pc = "ua_swap"   -> "ua_root"
      [] pc = "ua_root"   -> after

\* umount_all(mount_path, root_fd) from its first statement to its last
umount_all(m, root_fd, outcome) ==
    LET escaped == UmountAllStep(m, "ua_escape", root_fd, outcome)
        no_efi  == UmountAllStep(escaped, "ua_efi", root_fd, outcome)
        no_swap == UmountAllStep(no_efi, "ua_swap", root_fd, outcome)
    IN  UmountAllStep(no_swap, "ua_root", root_fd, outcome)

\* the mount sessions a pipeline can leave behind: the bind mounts are the
\* first k of BIND_MOUNTS, and everything is mounted on or below the root
\* mount
Sessions ==
    {m \in [root : {"host", "guest", "other"}, rootMnt : BOOLEAN,
            efiMnt : BOOLEAN, swap : BOOLEAN,
            binds : {1..k : k \in 0..Len(BIND_MOUNTS)}] :
        (m.efiMnt \/ m.swap \/ m.binds # {} \/ m.root = "guest")
            => m.rootMnt}

(***************************************************************************)
(* start_install (tui.rs): the summary's "Proceed" spawns the worker, the  *)
(* cancellation watcher and the progress consumer.                         *)
(***************************************************************************)
Pending(msg) == [tag |-> "Pending", msg |-> msg]
Finished == [tag |-> "Finished", msg |-> ""]

uiVars == <<layers, nCancel, cancelAt>>
workerVars == <<wpc, wres, wAnchor, stepsDone, txOpen, sent, guestOps>>
consumerVars == <<applied, cpc, cerr>>
fixedVars == <<lastCfg, envVars, req, mainVars>>

SummaryProceed ==
    /\ OnTop("summary")
    /\ wpc = "Idle"
    /\ lastCfg' = save_user_config_to_file(Top.c, TRUE)
    /\ layers' = Push(Pop(Pop(layers)), Layer("installing", Top.c, 0))
    /\ req' = Top.c
    /\ wpc' = "Formatting"
    /\ txOpen' = TRUE
    /\ xpc' = "recv"
    /\ cpc' = "recv"
    /\ UNCHANGED <<envVars, alive, wres, wAnchor, stepsDone, chan, sent,
                   applied, cerr, intr, nCancel, cancelAt, cbq, ms,
                   umountCalls, surfaced, guestOps, mainVars>>

\* "Cancel" of the Installing dialog: the confirmation is laid over it
CancelButton ==
    /\ OnTop("installing")
    /\ layers' = Push(layers, Layer("cancel_confirm", Top.c, 0))
    /\ UNCHANGED <<fixedVars, alive, workerVars, consumerVars, chan, xpc,
                   intr, nCancel, cancelAt, cbq, ms, umountCalls, surfaced>>

\* "Yes" of the confirmation: user_interrup_tx.send(true).unwrap(); the
\* dialog stays, and send fails once the watcher has dropped its receiver
CancelYes ==
    /\ OnTop("cancel_confirm")
    /\ nCancel < MaxCancel
    /\ nCancel' = nCancel + 1
    /\ cancelAt' = IF nCancel = 0 THEN wpc ELSE cancelAt
    /\ IF xpc = "returned"
       THEN alive' = FALSE /\ intr' = intr
       ELSE alive' = alive /\ intr' = intr + 1
    /\ UNCHANGED <<fixedVars, layers, workerVars, consumerVars, chan, xpc,
                   cbq, ms, umountCalls, surfaced>>

\* "No" of the confirmation
CancelNo ==
    /\ OnTop("cancel_confirm")
    /\ layers' = Pop(layers)
    /\ UNCHANGED <<fixedVars, alive, workerVars, consumerVars, chan, xpc,
                   intr, nCancel, cancelAt, cbq, ms, umountCalls, surfaced>>

\* the event loop runs the next callback of the sink: quit, show_finished,
\* or show_error with the worker's error
UiCallback ==
    /\ alive
    /\ cbq # <<>>
    /\ cbq' = Tail(cbq)
    /\ LET cb == Head(cbq)
       IN  CASE cb.f = "quit" ->
                  alive' = FALSE /\ UNCHANGED <<layers, surfaced>>
             [] cb.f = "show_finished" ->
                  /\ layers' = Push(Pop(layers), Layer("finished", req, 0))
                  /\ UNCHANGED <<alive, surfaced>>
             [] cb.f = "show_error" ->
                  /\ layers' = Push(layers, Layer("error", req, 0))
                  /\ surfaced' = cb.err
                  /\ alive' = alive
    /\ UNCHANGED <<fixedVars, nCancel, cancelAt, workerVars, consumerVars,
                   chan, xpc, intr, ms, umountCalls>>

\* show_finished: "Reboot" and "Exit to LiveKit"; show_error: "Exit"
FinalButton ==
    /\ OnTop("finished") \/ OnTop("error")
    /\ Quit

(***************************************************************************)
(* The pipeline worker: begin_install(tx, config, tempdir, logfile) of the *)
(* frontend module, sequenced as the specification's section 4.6 states    *)
(* it, over the operations of install.rs.                                  *)
(***************************************************************************)
NextState(state) ==
    CASE state = "Formatting"          -> "Mounting"
      [] state = "Mounting"            ->
           IF efi THEN "BootPartitionMount" ELSE "Fetching"
      [] state = "BootPartitionMount"  -> "Fetching"
      [] state = "Fetching"            -> "Extracting"
      [] state = "Extracting"          -> "ConfiguringGuest"
      [] state = "ConfiguringGuest"    -> "SwapSetup"
      [] state = "SwapSetup"           -> "BootloaderInstall"
      [] state = "BootloaderInstall"   -> "Unmounting"
      [] state = "Unmounting"          -> "Done"

\* a forward transition succeeded: Pending is emitted, the next state entered
\* (the channel is followed up to MaxInFlight events in flight)
WorkerAdvance(m) ==
    /\ Len(chan) < MaxInFlight
    /\ ms' = m
    /\ wpc' = NextState(wpc)
    /\ stepsDone' = Append(stepsDone, wpc)
    /\ chan' = Append(chan, Pending(wpc))
    /\ sent' = Append(sent, Pending(wpc))
    /\ UNCHANGED <<wres, txOpen>>

\* a forward transition failed: begin_install returns the error, which
\* drops the Sender
WorkerAbort(m) ==
    /\ ms' = m
    /\ wpc' = "Failed"
    /\ wres' = wpc
    /\ txOpen' = FALSE
    /\ UNCHANGED <<stepsDone, chan, sent>>

workerFrame == <<fixedVars, uiVars, alive, consumerVars, xpc, intr, cbq,
                 umountCalls, surfaced>>

\* format_partition(partition)
WorkerFormat ==
    /\ alive /\ wpc = "Formatting"
    /\ \E ok \in BOOLEAN :
         IF ok THEN WorkerAdvance(ms) ELSE WorkerAbort(ms)
    /\ UNCHANGED <<workerFrame, wAnchor, guestOps>>

\* mount_root_path(partition, tempdir)
WorkerMount ==
    /\ alive /\ wpc = "Mounting"
    /\ \E ok \in BOOLEAN :
         IF ok /\ mount_root_path_ok(req.part)
         THEN WorkerAdvance([ms EXCEPT !.rootMnt = TRUE])
         ELSE WorkerAbort(ms)
    /\ UNCHANGED <<workerFrame, wAnchor, guestOps>>

\* find_esp_partition, then mount_root_path(esp, tempdir/efi)
WorkerBootMount ==
    /\ alive /\ wpc = "BootPartitionMount"
    /\ \E ok \in BOOLEAN :
         IF ok
         THEN WorkerAdvance([ms EXCEPT !.efiMnt = TRUE])
         ELSE WorkerAbort(ms)
    /\ UNCHANGED <<workerFrame, wAnchor, guestOps>>

\* download of the release, then extract_tar_xz
WorkerFetch ==
    /\ alive /\ wpc \in {"Fetching", "Extracting"}
    /\ \E ok \in BOOLEAN :
         IF ok THEN WorkerAdvance(ms) ELSE WorkerAbort(ms)
    /\ UNCHANGED <<workerFrame, wAnchor, guestOps>>

\* get_dir_fd("/") kept by the worker, then dive_into_guest(tempdir)
WorkerDive ==
    /\ alive /\ wpc = "ConfiguringGuest" /\ ~wAnchor
    /\ \E k \in 0..Len(BIND_MOUNTS) :
         LET m == dive_into_guest(ms, k)
         IN  IF m.root = "guest" /\ ms.root = "host"
             THEN /\ ms' = m
                  /\ wAnchor' = TRUE
                  /\ UNCHANGED <<wpc, wres, stepsDone, chan, txOpen, sent>>
             ELSE WorkerAbort(m) /\ wAnchor' = wAnchor
    /\ UNCHANGED <<workerFrame, guestOps>>

\* the operations of the chroot context act on the process root of the
\* moment they run: set_hostname, set_locale, set_zoneinfo, add_new_user...
WorkerConfigure ==
    /\ alive /\ wpc = "ConfiguringGuest" /\ wAnchor
    /\ guestOps' = guestOps \cup {ms.root}
    /\ \E ok \in BOOLEAN :
         IF ok THEN WorkerAdvance(ms) ELSE WorkerAbort(ms)
    /\ UNCHANGED <<workerFrame, wAnchor>>

\* create_swapfile, swapon, write_swap_entry_to_fstab
WorkerSwap ==
    /\ alive /\ wpc = "SwapSetup"
    /\ guestOps' = IF req.swap > 0 THEN guestOps \cup {ms.root} ELSE guestOps
    /\ \E ok \in BOOLEAN :
         IF ok THEN WorkerAdvance([ms EXCEPT !.swap = req.swap > 0])
         ELSE WorkerAbort(ms)
    /\ UNCHANGED <<workerFrame, wAnchor>>

\* execute_dracut, execute_grub_install
WorkerBootloader ==
    /\ alive /\ wpc = "BootloaderInstall"
    /\ guestOps' = guestOps \cup {ms.root}
    /\ \E ok \in BOOLEAN :
         IF ok THEN WorkerAdvance(ms) ELSE WorkerAbort(ms)
    /\ UNCHANGED <<workerFrame, wAnchor>>

\* the natural end: escape_chroot with the worker's anchor, then
\* remove_bind_mounts and the unmounts of umount_all
WorkerUnmount ==
    /\ alive /\ wpc = "Unmounting"
    /\ LET m0 == escape_chroot(ms, "valid", "host")
           m1 == remove_bind_mounts(m0)
           m2 == IF efi THEN umount_root_path(m1, "efi") ELSE m1
           m3 == umount_root_path(swapoff(m2), "root")
       IN  WorkerAdvance(m3)
    /\ UNCHANGED <<workerFrame, wAnchor, guestOps>>

\* reaching Done: Finished is sent and begin_install returns Ok
WorkerFinish ==
    /\ alive /\ wpc = "Done" /\ wres = "none"
    /\ Len(chan) < MaxInFlight
    /\ chan' = Append(chan, Finished)
    /\ sent' = Append(sent, Finished)
    /\ wres' = "ok"
    /\ txOpen' = FALSE
    /\ UNCHANGED <<workerFrame, wpc, wAnchor, stepsDone, guestOps, ms>>

(***************************************************************************)
(* The cancellation watcher (tui.rs, second thread of start_install).      *)
(***************************************************************************)
Callback(f, err) == [f |-> f, err |-> err]

\* user_interrup_rx.recv() returns Ok(true): umount_all is entered
WatcherRecv ==
    /\ alive /\ xpc = "recv" /\ intr > 0
    /\ intr' = intr - 1
    /\ xpc' = "ua_escape"
    /\ umountCalls' = umountCalls + 1
    /\ UNCHANGED <<fixedVars, uiVars, alive, workerVars, consumerVars, chan,
                   cbq, ms, surfaced>>

\* umount_all(&tempdir_copy_2, root_fd), statement by statement
WatcherUmount ==
    /\ alive /\ xpc \in UmountAllPcs
    /\ \E outcome \in StaleFdOutcomes :
         ms' = UmountAllStep(ms, xpc, start_install_root_fd, outcome)
    /\ xpc' = UmountAllNext(xpc, "send_quit")
    /\ UNCHANGED <<fixedVars, uiVars, alive, workerVars, consumerVars, chan,
                   intr, cbq, umountCalls, surfaced>>

\* cb_sink_clone.send(|s| s.quit())
WatcherQuit ==
    /\ alive /\ xpc = "send_quit"
    /\ cbq' = Append(cbq, Callback("quit", ""))
    /\ xpc' = "returned"
    /\ UNCHANGED <<fixedVars, uiVars, alive, workerVars, consumerVars, chan,
                   intr, ms, umountCalls, surfaced>>

(***************************************************************************)
(* The progress consumer (tui.rs, third thread of start_install).          *)
(***************************************************************************)
\* ConsumerRecv without the return of the Finished arm
ConsumerRecv_KeepsReceiving ==
    /\ alive /\ cpc = "recv" /\ chan # <<>>
    /\ chan' = Tail(chan)
    /\ applied' = Append(applied, Head(chan))
    /\ IF Head(chan).tag = "Finished"
       THEN /\ cbq' = Append(cbq, Callback("show_finished", ""))
            /\ cpc' = cpc
       ELSE UNCHANGED <<cbq, cpc>>
    /\ UNCHANGED <<fixedVars, uiVars, alive, workerVars, cerr, xpc, intr,
                   ms, umountCalls, surfaced>>

\* ConsumerRecv handing over the newest event of the channel
ConsumerRecv_TakesNewest ==
    /\ alive /\ cpc = "recv" /\ chan # <<>>
    /\ chan' = SubSeq(chan, 1, Len(chan) - 1)
    /\ applied' = Append(applied, chan[Len(chan)])
    /\ IF chan[Len(chan)].tag = "Finished"
       THEN /\ cbq' = Append(cbq, Callback("show_finished", ""))
            /\ cpc' = "returned"
       ELSE UNCHANGED <<cbq, cpc>>
    /\ UNCHANGED <<fixedVars, uiVars, alive, workerVars, cerr, xpc, intr,
                   ms, umountCalls, surfaced>>

\* ConsumerJoin reporting the error without umount_all
ConsumerJoin_SkipsCleanup ==
    /\ alive /\ cpc = "recv"
    /\ chan = <<>> /\ ~txOpen
    /\ wpc \in {"Failed", "Done"} /\ wres # "none"
    /\ IF wres = "ok"
       THEN /\ alive' = FALSE
            /\ UNCHANGED <<cerr, cpc, umountCalls>>
       ELSE /\ cerr' = wres
            /\ cpc' = "report"
            /\ umountCalls' = umountCalls
            /\ alive' = alive
    /\ UNCHANGED <<fixedVars, uiVars, workerVars, applied, chan, xpc, intr,
                   cbq, ms, surfaced>>

\* rx.recv() returns Ok(progress)
ConsumerRecv ==
    /\ alive /\ cpc = "recv" /\ chan # <<>>
    /\ chan' = Tail(chan)
    /\ applied' = Append(applied, Head(chan))
    /\ IF Head(chan).tag = "Finished"
       THEN /\ cbq' = Append(cbq, Callback("show_finished", ""))
            /\ cpc' = "returned"
       ELSE UNCHANGED <<cbq, cpc>>
    /\ UNCHANGED <<fixedVars, uiVars, alive, workerVars, cerr, xpc, intr,
                   ms, umountCalls, surfaced>>

\* rx.recv() returns Err only when the channel is empty and every Sender
\* is dropped; install_thread.join() returns when the worker has ended
RecvDisconnected == chan = <<>> /\ ~txOpen
JoinReturns == wpc \in {"Failed", "Done"} /\ wres # "none"

\* the else branch: join().unwrap().unwrap_err(), then umount_all is entered
ConsumerJoin ==
    /\ alive /\ cpc = "recv"
    /\ RecvDisconnected
    /\ JoinReturns
    /\ IF wres = "ok"
       THEN /\ alive' = FALSE
            /\ UNCHANGED <<cerr, cpc, umountCalls>>
       ELSE /\ cerr' = wres
            /\ cpc' = "ua_escape"
            /\ umountCalls' = umountCalls + 1
            /\ alive' = alive
    /\ UNCHANGED <<fixedVars, uiVars, workerVars, applied, chan, xpc, intr,
                   cbq, ms, surfaced>>

\* umount_all(&tempdir, root_fd), statement by statement
ConsumerUmount ==
    /\ alive /\ cpc \in UmountAllPcs
    /\ \E outcome \in StaleFdOutcomes :
         ms' = UmountAllStep(ms, cpc, start_install_root_fd, outcome)
    /\ cpc' = UmountAllNext(cpc, "report")
    /\ UNCHANGED <<fixedVars, uiVars, alive, workerVars, applied, cerr, chan,
                   xpc, intr, cbq, umountCalls, surfaced>>

\* cb_sink.send(show_error(err ...)), return
ConsumerReport ==
    /\ alive /\ cpc = "report"
    /\ cbq' = Append(cbq, Callback("show_error", cerr))
    /\ cpc' = "returned"
    /\ UNCHANGED <<fixedVars, uiVars, alive, workerVars, applied, cerr, chan,
                   xpc, intr, ms, umountCalls, surfaced>>

(***************************************************************************)
(* The installer with the text interface: tui_main and start_install.      *)
(***************************************************************************)
SavedConfigs ==
    {[variant |-> v, mirror |-> TRUE, part |-> NoPart, user |-> TRUE,
      hostname |-> TRUE, locale |-> TRUE, swap |-> 0] : v \in Variants}

MainOff ==
    /\ mpc = "off" /\ tpc = "off"
    /\ download_done = FALSE /\ extract_done = FALSE
    /\ distance = "none" /\ mSteps = <<>>

ThreadsOff ==
    /\ req = DefaultConfig
    /\ wpc = "Idle" /\ wres = "none" /\ wAnchor = FALSE /\ stepsDone = <<>>
    /\ chan = <<>> /\ txOpen = FALSE /\ sent = <<>> /\ applied = <<>>
    /\ cpc = "none" /\ cerr = "none" /\ xpc = "none" /\ intr = 0
    /\ nCancel = 0 /\ cancelAt = "none" /\ cbq = <<>>
    /\ umountCalls = 0 /\ guestOps = {}

\* tui_main: the welcome screen; a previous run may have left its
\* configuration in LAST_USER_CONFIG_FILE
InitWizard ==
    /\ layers = <<Layer("welcome", DefaultConfig, 0)>>
    /\ lastCfg \in {NoFile} \cup SavedConfigs
    /\ efi \in BOOLEAN
    /\ table \in {"gpt", "msdos"}
    /\ alive = TRUE
    /\ call = NoCall
    /\ ms = CleanSession
    /\ surfaced = "none"
    /\ ThreadsOff
    /\ MainOff

\* the wizard, up to the hand-over of the request to the worker
NextWizard ==
    \/ WelcomeStart \/ VariantSubmit \/ MirrorsContinue \/ MirrorsBenchmark
    \/ BenchmarkOK \/ BenchmarkCancel \/ BackToVariant \/ ExitButton
    \/ PartitionTool \/ PartitionContinue \/ DialogOK \/ FsKeepUseFs
    \/ FsKeepUseExt4 \/ FsAdvOK \/ DialogCancel \/ FormatWarningOK
    \/ LastConfigYes \/ LastConfigNo \/ FormContinue \/ FormBack
    \/ SwapAuto \/ SwapCustom \/ SwapCustomOK \/ SwapDisabled
    \/ SummarySave \/ SummaryProceed

SpecWizard == InitWizard /\ [][NextWizard]_vars

\* The requests of the wizard's straight path: the partition holds the
\* variant, the swapfile passed the test of its dialog.
Requests ==
    {[variant |-> v, mirror |-> TRUE,
      part |-> fill_fs_type([id |-> p, fs |-> PartFs(p)], use_ext4),
      user |-> TRUE, hostname |-> TRUE, locale |-> TRUE, swap |-> size] :
        v \in Variants, p \in PartIds, use_ext4 \in BOOLEAN,
        size \in 0..MaxCustomSwap}

StraightRequests ==
    {r \in Requests :
        /\ PartSize(r.part.id) >= install_size(r.variant)
        /\ ~NotEnoughSpace(install_size(r.variant), r.swap,
                           PartSize(r.part.id))
        /\ is_enable_hibernation(r.swap, MemGiB) # "too_small"}

\* the requests the pipeline is followed with: one partition and variant,
\* every swapfile size
InstallRequests ==
    {r \in StraightRequests :
        r.variant = 1 /\ r.part.id = NParts /\ r.part.fs = DEFAULT_FS_TYPE}

\* the state start_install leaves: the Installing dialog and three threads
Init ==
    /\ \E r \in InstallRequests :
         /\ layers = <<Layer("installing", r, 0)>>
         /\ lastCfg = save_user_config_to_file(r, TRUE)
         /\ req = r
    /\ efi \in BOOLEAN
    /\ table = IF efi THEN "gpt" ELSE "msdos"
    /\ alive = TRUE
    /\ call = NoCall
    /\ ms = CleanSession
    /\ surfaced = "none"
    /\ wpc = "Formatting" /\ wres = "none" /\ wAnchor = FALSE
    /\ stepsDone = <<>>
    /\ chan = <<>> /\ txOpen = TRUE /\ sent = <<>> /\ applied = <<>>
    /\ cpc = "recv" /\ cerr = "none" /\ xpc = "recv" /\ intr = 0
    /\ nCancel = 0 /\ cancelAt = "none" /\ cbq = <<>>
    /\ umountCalls = 0 /\ guestOps = {}
    /\ MainOff

Next ==
    \/ CancelButton \/ CancelYes \/ CancelNo \/ UiCallback \/ FinalButton
    \/ WorkerFormat \/ WorkerMount \/ WorkerBootMount \/ WorkerFetch
    \/ WorkerDive \/ WorkerConfigure \/ WorkerSwap \/ WorkerBootloader
    \/ WorkerUnmount \/ WorkerFinish
    \/ WatcherRecv \/ WatcherUmount \/ WatcherQuit
    \/ ConsumerRecv \/ ConsumerJoin \/ ConsumerUmount \/ ConsumerReport

Spec == Init /\ [][Next]_vars

(***************************************************************************)
(* main.rs: begin_install(siv, config) runs the pipeline on the interface  *)
(* thread; the progress bar's task downloads and extracts in a second      *)
(* thread and reports through download_done and extract_done.              *)
(***************************************************************************)
tuiOff == <<layers, lastCfg, table, call, wpc, wres, wAnchor, stepsDone, chan,
            txOpen, sent, applied, cpc, cerr, xpc, intr, nCancel, cancelAt,
            cbq, umountCalls>>

\* show_error(siv, &e.to_string()); return
MainShowError(e) ==
    /\ surfaced' = e
    /\ mpc' = "returned"
    /\ UNCHANGED <<mSteps, tpc>>

MainDone(step, next) ==
    /\ mSteps' = Append(mSteps, step)
    /\ mpc' = next
    /\ UNCHANGED surfaced

\* the progress bar is built with its task, which starts to download
MainStartTask == tpc' = "download"

\* disks::format_partition(partition)
MainFormat ==
    /\ alive /\ mpc = "format"
    /\ \E ok \in BOOLEAN :
         IF ok THEN MainDone("Formatting", "mount")
         ELSE MainShowError("Formatting")
    /\ UNCHANGED <<tuiOff, efi, req, alive, ms, guestOps, tpc,
                   download_done, extract_done, distance>>

\* install::auto_mount_root_path(partition)
MainMount ==
    /\ alive /\ mpc = "mount"
    /\ \E ok \in BOOLEAN :
         IF ok /\ mount_root_path_ok(req.part)
         THEN /\ ms' = [ms EXCEPT !.rootMnt = TRUE]
              /\ mSteps' = Append(mSteps, "Mounting")
              /\ IF efi THEN mpc' = "esp" /\ tpc' = tpc
                 ELSE mpc' = "wait_download" /\ MainStartTask
              /\ UNCHANGED surfaced
         ELSE MainShowError("Mounting") /\ ms' = ms
    /\ UNCHANGED <<tuiOff, efi, req, alive, guestOps, download_done,
                   extract_done, distance>>

\* disks::find_esp_partition, then install::mount_root_path(&esp_part, ..)
MainBootMount ==
    /\ alive /\ mpc = "esp"
    /\ \E ok \in BOOLEAN :
         IF ok
         THEN /\ ms' = [ms EXCEPT !.efiMnt = TRUE]
              /\ mSteps' = Append(mSteps, "BootPartitionMount")
              /\ mpc' = "wait_download"
              /\ MainStartTask
              /\ UNCHANGED surfaced
         ELSE MainShowError("BootPartitionMount") /\ ms' = ms
    /\ UNCHANGED <<tuiOff, efi, req, alive, guestOps, download_done,
                   extract_done, distance>>

\* the task: network::download_file(&url), copy, download_done is set; or
\* the task returns without setting it
TaskDownload ==
    /\ alive /\ tpc = "download"
    /\ \E ok \in BOOLEAN :
         IF ok THEN download_done' = TRUE /\ tpc' = "extract"
         ELSE download_done' = download_done /\ tpc' = "returned"
    /\ UNCHANGED <<tuiOff, efi, req, alive, ms, surfaced, guestOps, mpc,
                   extract_done, distance, mSteps>>

\* the task: install::extract_tar_xz(..).unwrap(), extract_done is set; or
\* the task's thread panics
TaskExtract ==
    /\ alive /\ tpc = "extract"
    /\ \E ok \in BOOLEAN :
         IF ok THEN extract_done' = TRUE /\ tpc' = "returned"
         ELSE extract_done' = extract_done /\ tpc' = "panicked"
    /\ UNCHANGED <<tuiOff, efi, req, alive, ms, surfaced, guestOps, mpc,
                   download_done, distance, mSteps>>

\* loop { if download_done.load() { break } refresh; sleep }
MainWaitDownload ==
    /\ alive /\ mpc = "wait_download"
    /\ download_done
    /\ MainDone("Fetching", "wait_extract")
    /\ UNCHANGED <<tuiOff, efi, req, alive, ms, guestOps, tpc,
                   download_done, extract_done, distance>>

\* loop { if extract_done.load() { break } refresh; sleep }
MainWaitExtract ==
    /\ alive /\ mpc = "wait_extract"
    /\ extract_done
    /\ MainDone("Extracting", "dive")
    /\ UNCHANGED <<tuiOff, efi, req, alive, ms, guestOps, tpc,
                   download_done, extract_done, distance>>

\* get_root_distance; remove_bind_mounts(..).ok(); dive_into_guest(..).unwrap()
MainDive ==
    /\ alive /\ mpc = "dive"
    /\ distance' \in {"ok", "err"}
    /\ \E k \in 0..Len(BIND_MOUNTS) :
         LET m == dive_into_guest(remove_bind_mounts(ms), k)
         IN  /\ ms' = m
             /\ IF m.root = "guest"
                THEN mpc' = "dracut" /\ alive' = alive
                ELSE mpc' = "panicked" /\ alive' = FALSE
    /\ UNCHANGED <<tuiOff, efi, req, surfaced, guestOps, tpc, download_done,
                   extract_done, mSteps>>

\* execute_dracut().unwrap(); then the result of get_root_distance is tested
MainDracut ==
    /\ alive /\ mpc = "dracut"
    /\ \E ok \in BOOLEAN :
         IF ~ok
         THEN /\ mpc' = "panicked" /\ alive' = FALSE
              /\ UNCHANGED <<guestOps, surfaced, mSteps>>
         ELSE /\ guestOps' = guestOps \cup {ms.root}
              /\ alive' = alive
              /\ IF distance = "err"
                 THEN /\ surfaced' = "get_root_distance"
                      /\ mpc' = "returned"
                      /\ mSteps' = Append(mSteps, "ConfiguringGuest")
                 ELSE MainDone("ConfiguringGuest", "grub")
    /\ UNCHANGED <<tuiOff, efi, req, ms, tpc, download_done, extract_done,
                   distance>>

\* execute_grub_install(..).unwrap(); escape_chroot(distance.unwrap())
\* .unwrap(); remove_bind_mounts(..).ok()
MainGrub ==
    /\ alive /\ mpc = "grub"
    /\ \E ok \in BOOLEAN :
         IF ~ok
         THEN /\ mpc' = "panicked" /\ alive' = FALSE
              /\ UNCHANGED <<guestOps, ms, mSteps>>
         ELSE /\ guestOps' = guestOps \cup {ms.root}
              /\ ms' = remove_bind_mounts(escape_chroot(ms, "valid", "host"))
              /\ mSteps' = mSteps \o <<"BootloaderInstall", "Unmounting">>
              /\ mpc' = "returned"
              /\ alive' = alive
    /\ UNCHANGED <<tuiOff, efi, req, surfaced, tpc, download_done,
                   extract_done, distance>>

\* the request of main.rs's wizard: no swapfile, any partition
InitMain ==
    /\ \E r \in {q \in Requests : q.swap = 0} :
         /\ req = r
         /\ layers = <<Layer("summary", r, 0)>>
    /\ lastCfg = NoFile
    /\ efi \in BOOLEAN
    /\ table = IF efi THEN "gpt" ELSE "msdos"
    /\ alive = TRUE
    /\ call = NoCall
    /\ ms = CleanSession
    /\ surfaced = "none"
    /\ wpc = "Idle" /\ wres = "none" /\ wAnchor = FALSE /\ stepsDone = <<>>
    /\ chan = <<>> /\ txOpen = FALSE /\ sent = <<>> /\ applied = <<>>
    /\ cpc = "none" /\ cerr = "none" /\ xpc = "none" /\ intr = 0
    /\ nCancel = 0 /\ cancelAt = "none" /\ cbq = <<>>
    /\ umountCalls = 0 /\ guestOps = {}
    /\ mpc = "format" /\ tpc = "off"
    /\ download_done = FALSE /\ extract_done = FALSE
    /\ distance = "none" /\ mSteps = <<>>

NextMain ==
    \/ MainFormat \/ MainMount \/ MainBootMount
    \/ TaskDownload \/ TaskExtract
    \/ MainWaitDownload \/ MainWaitExtract
    \/ MainDive \/ MainDracut \/ MainGrub

SpecMain == InitMain /\ [][NextMain]_vars

SpecMainFair == SpecMain /\ WF_vars(NextMain)

(***************************************************************************)
(* Properties.                                                             *)
(***************************************************************************)
Range(seq) == {seq[i] : i \in DOMAIN seq}
Count(seq, e) == Cardinality({i \in DOMAIN seq : seq[i] = e})
Last(seq) == seq[Len(seq)]

\* C1: whatever the wizard steps were (Back, another variant chosen after
\* the partition, a reloaded configuration), the pipeline never enters
\* Formatting with a target partition smaller than install_size of the
\* variant of the request that was submitted.
C1_FormattingOnlyWhenPartitionFits ==
    wpc = "Formatting" =>
        PartSize(req.part.id) >= install_size(req.variant)

\* C2: when the operator confirms the cancellation while the worker is in
\* Fetching, umount_all is invoked at most once while the process runs and
\* exactly once when it has ended, and the worker never completes
\* ConfiguringGuest, under every interleaving of the three threads.
C2_CancelInFetchingCleansUpOnce ==
    cancelAt = "Fetching" =>
        /\ umountCalls <= 1
        /\ ~alive => umountCalls = 1
        /\ "ConfiguringGuest" \notin Range(stepsDone)

\* C3: in every state in which an install failure has been shown to the
\* operator, the process root is the host root and no mount of the session
\* (root mount, boot/EFI sub-mount, bind mounts) is active.
C3_SurfacedFailureIsClean ==
    surfaced # "none" =>
        /\ ms.root = "host"
        /\ ~ms.rootMnt /\ ~ms.efiMnt
        /\ ms.binds = {}

\* C4: every operation that must be used in a chroot context (set_hostname,
\* set_locale, set_zoneinfo, add_new_user, write_swap_entry_to_fstab,
\* execute_dracut, execute_grub_install) runs only while the process root
\* is the guest root.
C4_GuestOpsOnlyInGuestRoot == guestOps \subseteq {"guest"}

\* the states in which a thread is inside a mount, unmount, swap or chroot
\* operation on the Mount Session
MountSteps ==
    {"Mounting", "BootPartitionMount", "ConfiguringGuest", "SwapSetup",
     "Unmounting"}
WorkerInMountOp == wpc \in MountSteps
WatcherInMountOp == xpc \in UmountAllPcs
ConsumerInMountOp == cpc \in UmountAllPcs

\* C5: in no reachable state do two of the three threads (worker,
\* cancellation watcher, progress consumer) perform a mount, unmount, swap
\* or chroot operation on the Mount Session at the same time.
C5_OneThreadOnMountSession ==
    /\ ~(WorkerInMountOp /\ WatcherInMountOp)
    /\ ~(WorkerInMountOp /\ ConsumerInMountOp)
    /\ ~(WatcherInMountOp /\ ConsumerInMountOp)

IsPrefix(a, b) == Len(a) <= Len(b) /\ \A i \in DOMAIN a : a[i] = b[i]

PipelineOrder(is_efi) ==
    <<"Formatting", "Mounting">>
    \o (IF is_efi THEN <<"BootPartitionMount">> ELSE <<>>)
    \o <<"Fetching", "Extracting", "ConfiguringGuest", "SwapSetup",
         "BootloaderInstall", "Unmounting", "Done">>

\* C6: the forward steps of a run happen only in the order Formatting,
\* Mounting, BootPartitionMount (if and only if EFI-booted), Fetching,
\* Extracting, ConfiguringGuest, SwapSetup, BootloaderInstall, Unmounting,
\* Done, none repeated or skipped, and the chroot is entered for
\* ConfiguringGuest only after the capture of the escape anchor succeeded.
C6_StepsInPipelineOrder ==
    /\ IsPrefix(mSteps, PipelineOrder(efi))
    /\ "ConfiguringGuest" \in Range(mSteps) => distance = "ok"

\* C7: every install run eventually terminates; no failure (a failed
\* download, a failed extraction) leaves the caller waiting forever.
C7_RunTerminates == <>(mpc \in {"returned", "panicked"})

\* C8: a run that reaches Done emits exactly one Finished event, Finished
\* is the last event of the run and the consumer handles no event after
\* it; a run that does not reach Done emits no Finished event.
C8_ExactlyOneFinishedLast ==
    /\ Count(sent, Finished) = (IF wres = "ok" THEN 1 ELSE 0)
    /\ wres = "ok" => wpc = "Done" /\ Last(sent) = Finished
    /\ Finished \in Range(applied) =>
           /\ Last(applied) = Finished
           /\ Count(applied, Finished) = 1
           /\ cpc = "returned"

C8_Witness ==
    /\ wres = "ok" /\ wpc = "Done"
    /\ Finished \in Range(applied)
    /\ Len(applied) = Len(PipelineOrder(efi))

\* C9: the events the consumer has applied, followed by the events still in
\* the channel, are exactly the events the worker emitted, in the same
\* order; when the consumer observes the closure, it has applied them all.
C9_AppliedAreTheEmitted ==
    /\ applied \o chan = sent
    /\ cpc \in UmountAllPcs \cup {"report"} => applied = sent

C9_Witness ==
    /\ Len(applied) >= 2
    /\ Len(chan) >= 2
    /\ applied \o chan = sent

\* C10: an error is shown to the operator only after the channel closed
\* without Finished, the worker was joined, and umount_all was invoked and
\* has returned; the error shown is the worker's own error, whatever the
\* cleanup's own failures.
C10_ErrorSurfacedAfterCleanup ==
    /\ \A i \in DOMAIN cbq :
          cbq[i].f = "show_error" =>
              /\ cbq[i].err = wres
              /\ cpc = "returned"
    /\ (surfaced # "none" \/ cpc = "report" \/
        \E i \in DOMAIN cbq : cbq[i].f = "show_error") =>
          /\ wpc = "Failed" /\ wres \notin {"none", "ok"}
          /\ Finished \notin Range(sent)
          /\ cerr = wres
          /\ umountCalls >= 1
    /\ surfaced # "none" => surfaced = wres /\ cpc = "returned"

C10_Witness ==
    /\ surfaced = "ConfiguringGuest"
    /\ ms.root = "guest"
    /\ cpc = "returned"

\* C11: the escape anchor is captured before dive_into_guest is first
\* called, and a cleanup (umount_all) attempts escape_chroot with that anchor
\* before it performs any unmount: the process is inside the guest root only
\* once the worker holds its anchor, and when the consumer's cleanup, which
\* runs after the worker has ended, stands at one of its unmounts, its
\* escape_chroot has brought the process back to the host root.
C11_CleanupEscapesWithAnchorFirst ==
    /\ ms.root = "guest" => wAnchor
    /\ cpc \in UmountAllPcs \ {"ua_escape"} => ms.root = "host"

\* C12: when a run has reached its end without an error, the mount session
\* is torn down: the process root is the host root, and the root mount, the
\* EFI mount below it and every bind mount are unmounted, so that no mount
\* of this run is active when the next one starts.
C12_DoneMeansSessionTornDown ==
    (mpc = "returned" /\ surfaced = "none" /\ mSteps # <<>> /\
     Last(mSteps) = "Unmounting")
        => /\ ms.root = "host"
           /\ ~ms.rootMnt
           /\ ~ms.efiMnt
           /\ ms.binds = {}

\* the dialogs select_partition's "Continue" opens once both validators ran
AfterValidators == {"fs_keep", "fs_adv", "fmt_warn"}

C13_WitnessMismatch ==
    /\ right_combine(table, efi) # "ok"
    /\ OnTop("combine_err")

(***************************************************************************)
(* The name validators of install.rs.  A string is the sequence of the     *)
(* bytes of its UTF-8 encoding (as_bytes), each a number 0..255.           *)
(***************************************************************************)
\* u8::is_ascii_alphanumeric, is_ascii_lowercase, is_ascii_whitespace
is_ascii_alphanumeric(c) == c \in (48..57) \cup (65..90) \cup (97..122)
is_ascii_lowercase(c) == c \in 97..122
is_ascii_whitespace(c) == c \in {32, 9, 10, 12, 13}

\* is_valid_hostname accepting what starts with a dash
is_valid_hostname_any_start(hostname) ==
    /\ hostname # <<>>
    /\ \A i \in DOMAIN hostname :
          is_ascii_alphanumeric(hostname[i]) \/ hostname[i] = 45

\* is_valid_hostname(hostname)
is_valid_hostname(hostname) ==
    IF hostname = <<>> \/ hostname[1] = 45
    THEN FALSE
    ELSE \A i \in DOMAIN hostname :
            is_ascii_alphanumeric(hostname[i]) \/ hostname[i] = 45

\* is_acceptable_username without the comparison with "root"
is_acceptable_username_root_too(username) ==
    /\ username # <<>> /\ username[1] # 45
    /\ \A i \in DOMAIN username : is_ascii_lowercase(username[i])

\* is_acceptable_username(username)
is_acceptable_username(username) ==
    IF username = <<>> \/ username[1] = 45
    THEN FALSE
    ELSE IF username = <<114, 111, 111, 116>>
    THEN FALSE
    ELSE \A i \in DOMAIN username :
            ~(\/ is_ascii_whitespace(username[i])
              \/ ~is_ascii_lowercase(username[i])
              \/ username[i] = 47
              \/ username[i] = 92
              \/ username[i] = 58)

\* bytes the names are made of: a z A Z 0 9 - _ + space tab newline / \ :
\* and two bytes of a character outside ASCII
SampleBytes == {97, 122, 65, 90, 48, 57, 45, 95, 43, 32, 9, 10, 47, 92, 58,
                232, 128}

\* every name of at most MaxNameLen of these bytes
MaxNameLen == 2
ShortNames ==
    UNION {[1..n -> SampleBytes] : n \in 0..MaxNameLen}

\* the names of test_hostname_validation and test_username_validation
Str_root == <<114, 111, 111, 116>>
Str_foo == <<102, 111, 111>>
Str_foo_2e10 == <<102, 111, 111, 45, 50, 101, 49, 48>>
Str_jeffbai_device == <<106, 101, 102, 102, 98, 97, 105, 45, 100, 101, 118, 105, 99, 101>>
Str_invalid_host == <<105, 110, 118, 97, 108, 105, 100, 95, 104, 111, 115, 116>>
Str_dash_invalid == <<45, 105, 110, 118, 97, 108, 105, 100>>
Str_plus_invalid == <<43, 105, 110, 118, 97, 108, 105, 100>>
Str_JellyDimension == <<74, 101, 108, 108, 121, 68, 105, 109, 101, 110, 115, 105, 111, 110>>
Str_Jelly_Dimension == <<74, 101, 108, 108, 121, 95, 68, 105, 109, 101, 110, 115, 105, 111, 110>>
Str_cjk == <<232, 128, 129, 231, 153, 189>>
Str_BAIMINGCONG == <<66, 65, 73, 77, 73, 78, 71, 67, 79, 78, 71>>
TestNames ==
    {Str_root, Str_foo, Str_foo_2e10, Str_jeffbai_device, Str_invalid_host,
     Str_dash_invalid, Str_plus_invalid, Str_JellyDimension,
     Str_Jelly_Dimension, Str_cjk, Str_BAIMINGCONG}

\* str with byte c put after its first i bytes
Insert(str, i, c) ==
    SubSeq(str, 1, i) \o <<c>> \o SubSeq(str, i + 1, Len(str))

\* "root" and "foo" with one more byte, at every place ("/root",
\* "root\n", "ro ot", ...)
OneMoreByte ==
    UNION {{Insert(str, i, c) : i \in 0..Len(str), c \in SampleBytes} :
              str \in {Str_root, Str_foo}}

Names == ShortNames \cup TestNames \cup OneMoreByte

(***************************************************************************)
(* mount_root_path (install.rs) and format_partition (disks.rs) on a       *)
(* Partition with its optional fields: None is <<>>, Some(x) is <<x>>.     *)
(***************************************************************************)
None == <<>>
Some(x) == <<x>>
unwrap(option) == option[1]

\* str::starts_with on the bytes of two strings
starts_with(str, prefix) ==
    Len(str) >= Len(prefix) /\ SubSeq(str, 1, Len(prefix)) = prefix

Str_fat == <<102, 97, 116>>
Str_vfat == <<118, 102, 97, 116>>

\* mount_root_path calling mount(2) with whatever fields there are
mount_root_path_unguarded(partition, native_ok) ==
    [result |-> IF native_ok THEN "ok" ELSE "mount_failed",
     mounts |-> <<[source |-> partition.path,
                   fstype |-> partition.fs_type,
                   flags  |-> {}]>>]

\* mount_root_path(partition, target): the result, and the calls of
\* mount::mount it made (native_ok: mount(2) succeeds)
mount_root_path(partition, native_ok) ==
    IF partition.fs_type = None \/ partition.path = None
    THEN [result |-> "failed_to_determine_partition", mounts |-> <<>>]
    ELSE LET source == partition.path
             fs_type == IF starts_with(unwrap(partition.fs_type), Str_fat)
                        THEN Str_vfat
                        ELSE unwrap(partition.fs_type)
         IN  [result |-> IF native_ok THEN "ok" ELSE "mount_failed",
              mounts |-> <<[source |-> source,
                            fstype |-> Some(fs_type),
                            flags  |-> {}]>>]

Str_ext4 == <<101, 120, 116, 52>>
Str_mkfs_dot == <<109, 107, 102, 115, 46>>

\* what becomes of the command: it cannot be started, or it runs and exits
\* with or without success, having written stderr
ToolRuns ==
    [status : {"cannot_start", "success", "failure"},
     stderr : {"", "mkfs: cannot open device"}]

\* format_partition taking any exit of the tool for success
format_partition_any_exit(partition, tool) ==
    LET fs_type == IF partition.fs_type = None THEN Str_ext4
                   ELSE unwrap(partition.fs_type)
    IN  IF partition.path = None
        THEN [result |-> "could_not_find_partition", stderr |-> None,
              ran |-> <<>>]
        ELSE [result |-> IF tool.status = "cannot_start" THEN "io_error"
                         ELSE "ok",
              stderr |-> None,
              ran |-> <<[program |-> Str_mkfs_dot \o fs_type,
                         device |-> unwrap(partition.path)]>>]

\* format_partition(partition): the result, the stderr its error carries,
\* and the command it ran (tool: what becomes of that command)
format_partition(partition, tool) ==
    LET default_fs == Str_ext4
        fs_type == IF partition.fs_type = None THEN default_fs
                   ELSE unwrap(partition.fs_type)
        command == Str_mkfs_dot \o fs_type
        flag == IF fs_type = Str_ext4 THEN "-Fq"
                ELSE IF fs_type = Str_vfat THEN "-F32"
                ELSE "-f"
    IN  IF partition.path = None
        THEN [result |-> "could_not_find_partition", stderr |-> None,
              ran |-> <<>>]
        ELSE LET ran == <<[program |-> command, flag |-> flag,
                           device |-> unwrap(partition.path)]>>
             IN  IF tool.status = "cannot_start"
                 THEN [result |-> "io_error", stderr |-> None, ran |-> ran]
                 ELSE IF tool.status # "success"
                 THEN [result |-> "failed_to_format",
                       stderr |-> Some(tool.stderr), ran |-> ran]
                 ELSE [result |-> "ok", stderr |-> None, ran |-> ran]

\* filesystem names of a partition, as bytes: fat, fat12, fat16, fat32,
\* vfat, exfat, fa, ext4, btrfs, and the empty name
FsTypeBytes == {<<102, 97, 116>>,
                <<102, 97, 116, 49, 50>>,
                <<102, 97, 116, 49, 54>>,
                <<102, 97, 116, 51, 50>>,
                <<118, 102, 97, 116>>,
                <<101, 120, 102, 97, 116>>,
                <<102, 97>>,
                <<101, 120, 116, 52>>,
                <<98, 116, 114, 102, 115>>,
                <<>>}

\* partitions with and without a device path and a filesystem
OptionalPartitions ==
    [path : {None} \cup {Some(PartPath(i)) : i \in PartIds},
     fs_type : {None} \cup {Some(t) : t \in FsTypeBytes}]

(***************************************************************************)
(* The functions of disks.rs on their own: a call is drawn with its        *)
(* arguments, then the function is applied to them.                        *)
(***************************************************************************)
\* The process's root directory and working directory, each one of the
\* directories "host" (the host's /), "guest" (the mounted root) and
\* "other".  A call of three fallible statements joined by ? is its
\* sequence of processes after each statement that succeeded; failing is
\* the number of the statement that fails, 0 for none.
Dirs == {"host", "guest", "other"}
Processes == [root : Dirs, cwd : Dirs]

\* dive_into_guest(root) once setup_bind_mounts(root)? has succeeded:
\* chroot(root)?, set_current_dir("/")?
dive_into_guest_steps(p, failing) ==
    LET chrooted == [p EXCEPT !.root = "guest"]
        at_root  == [chrooted EXCEPT !.cwd = chrooted.root]
    IN  SubSeq(<<chrooted, at_root>>, 1,
               IF failing = 0 THEN 2 ELSE failing - 1)

\* escape_chroot with chroot(".") made before fchdir(root_fd)
escape_chroot_steps_chroot_first(p, anchor, failing) ==
    LET chrooted == [p EXCEPT !.root = p.cwd]
        moved    == [chrooted EXCEPT !.cwd = anchor]
        at_root  == [moved EXCEPT !.cwd = moved.root]
    IN  SubSeq(<<chrooted, moved, at_root>>, 1,
               IF failing = 0 THEN 3 ELSE failing - 1)

\* escape_chroot(root_fd), root_fd an open descriptor of the directory
\* anchor: fchdir(root_fd)?, chroot(".")?, set_current_dir("/")?
escape_chroot_steps(p, anchor, failing) ==
    LET moved    == [p EXCEPT !.cwd = anchor]
        chrooted == [moved EXCEPT !.root = moved.cwd]
        at_root  == [chrooted EXCEPT !.cwd = chrooted.root]
    IN  SubSeq(<<moved, chrooted, at_root>>, 1,
               IF failing = 0 THEN 3 ELSE failing - 1)

\* the process a call leaves
After(p, steps) == IF steps = <<>> THEN p ELSE steps[Len(steps)]

\* filesystem names handed to fstab_entries
FstabFsNames == {"vfat", "fat16", "fat32", "ext4", "btrfs", "xfs", "f2fs",
                 "swap", "fat", "fat12", "exfat", "ext2", "ext3", "ntfs",
                 "none", ""}

\* the match of fstab_entries: the FileSystem and the option of a name,
\* None for the names of the default arm
fstab_fs_type(fs_type) ==
    CASE fs_type \in {"vfat", "fat16", "fat32"} ->
             Some([fs |-> "Fat32", option |-> "defaults"])
      [] fs_type = "ext4"  -> Some([fs |-> "Ext4",  option |-> "defaults"])
      [] fs_type = "btrfs" -> Some([fs |-> "Btrfs", option |-> "defaults"])
      [] fs_type = "xfs"   -> Some([fs |-> "Xfs",   option |-> "defaults"])
      [] fs_type = "f2fs"  -> Some([fs |-> "F2fs",  option |-> "defaults"])
      [] fs_type = "swap"  -> Some([fs |-> "Swap",  option |-> "sw"])
      [] OTHER -> None

\* fstab_entries asking for the partition id before matching the name
fstab_entries_id_first(device_path, fs_type, mount_path, partition_id) ==
    LET matched == fstab_fs_type(fs_type)
    IN  IF device_path = None
        THEN [result |-> "NoDevice", lookups |-> <<>>, entries |-> <<>>]
        ELSE IF partition_id = None
        THEN [result |-> "NoUuid", lookups |-> <<unwrap(device_path)>>,
              entries |-> <<>>]
        ELSE IF matched = None
        THEN [result |-> "UnsupportedFilesystem",
              lookups |-> <<unwrap(device_path)>>, entries |-> <<>>]
        ELSE [result |-> "Ok", lookups |-> <<unwrap(device_path)>>,
              entries |-> <<[id |-> unwrap(partition_id),
                             mount_path |-> mount_path,
                             fs |-> unwrap(matched).fs,
                             option |-> unwrap(matched).option]>>]

\* fstab_entries(device_path, fs_type, mount_path), partition_id being what
\* BlockInfo::get_partition_id finds for the device: the result, the
\* devices whose id was looked up, and the entries written
fstab_entries(device_path, fs_type, mount_path, partition_id) ==
    LET matched == fstab_fs_type(fs_type)
    IN  IF device_path = None
        THEN [result |-> "NoDevice", lookups |-> <<>>, entries |-> <<>>]
        ELSE IF matched = None
        THEN [result |-> "UnsupportedFilesystem", lookups |-> <<>>,
              entries |-> <<>>]
        ELSE IF partition_id = None
        THEN [result |-> "NoUuid", lookups |-> <<unwrap(device_path)>>,
              entries |-> <<>>]
        ELSE [result |-> "Ok", lookups |-> <<unwrap(device_path)>>,
              entries |-> <<[id |-> unwrap(partition_id),
                             mount_path |-> mount_path,
                             fs |-> unwrap(matched).fs,
                             option |-> unwrap(matched).option]>>]

\* The external tools of the forward steps, in the order the step runs
\* them
StepTools(step) ==
    CASE step = "format_partition"     -> <<"mkfs">>
      [] step = "set_hwclock_tc"       -> <<"hwclock">>
      [] step = "add_new_user"         -> <<"useradd", "usermod", "chpasswd">>
      [] step = "execute_dracut"       -> <<"update-initramfs">>
      [] step = "create_swapfile"      -> <<"mkswap", "swapon">>
      [] step = "execute_grub_install" -> <<"grub-install", "grub-mkconfig">>

ForwardToolSteps ==
    {"format_partition", "set_hwclock_tc", "add_new_user", "execute_dracut",
     "create_swapfile", "execute_grub_install"}

\* the tools whose exit status the step tests with status.success():
\* chpasswd is spawned, written to and never waited for; the Result of
\* swapon's output() is dropped with .ok()
StatusTested(tool) == tool \notin {"chpasswd", "swapon"}

ExitStatuses == {"success", "failure"}

\* the step run with the exit status of each of its tools: the tools it
\* ran and its Result
run_step(step, statuses) ==
    LET tools   == StepTools(step)
        failing == {i \in DOMAIN tools :
                      StatusTested(tools[i]) /\ statuses[i] = "failure"}
        last    == IF failing = {} THEN Len(tools)
                   ELSE CHOOSE i \in failing : \A j \in failing : i <= j
    IN  [ran    |-> SubSeq(tools, 1, last),
         result |-> IF failing = {} THEN "Ok" ELSE "ToolFailure"]

\* A number of bytes is [mib, bytes]: mib whole MiB and bytes < 2^20 more,
\* so that sizes up to and past 2^31 bytes are counted exactly.
Bytes(mib, bytes) == [mib |-> mib, bytes |-> bytes]

\* i32::MAX = 2^31 - 1 bytes
I32_MAX == Bytes(2 ^ 11 - 1, 2 ^ 20 - 1)

\* `size as i32` of a non-negative f64 that is a whole number of bytes: the
\* cast saturates at i32::MAX
as_i32(size) == IF size.mib >= 2 ^ 11 THEN I32_MAX ELSE size

\* swapfile sizes the wizard hands over: whole and half GiB
MaxSwapFileGiB == 3
SwapFileSizes ==
    {Bytes(g * MiBPerGiB + d, 0) : g \in 0..MaxSwapFileGiB, d \in {0, 512}}

\* create_swapfile(size, use_swap, tempdir) with its calls succeeding: the
\* length fallocate gives tempdir/swapfile, and the tools run on it
create_swapfile(size, use_swap) ==
    IF ~use_swap
    THEN [file |-> None, tools |-> <<>>]
    ELSE [file  |-> Some(as_i32(size)),
          tools |-> StepTools("create_swapfile")]

\* "/tmp/.tmp", the prefix prepare_try_umount looks for
Str_tmp_dot_tmp == <<47, 116, 109, 112, 47, 46, 116, 109, 112>>

\* start_install: tempfile::Builder::new().prefix(".dkmount").tempdir() is
\* the temporary directory, "/tmp", joined with the prefix and six random
\* characters
Str_tmp_slash == <<47, 116, 109, 112, 47>>
Str_dot_dkmount == <<46, 100, 107, 109, 111, 117, 110, 116>>
session_mount_dir(random) == Str_tmp_slash \o Str_dot_dkmount \o random

\* mount points of /proc/mounts: the root mount of a session, its EFI
\* mount and a bind mount, the directory of another program that names its
\* temporary directories with tempfile's default prefix, and two mounts of
\* the host
Str_Ab12Cd == <<65, 98, 49, 50, 67, 100>>
MountPoints ==
    {session_mount_dir(Str_Ab12Cd),
     session_mount_dir(Str_Ab12Cd) \o <<47, 101, 102, 105>>,
     session_mount_dir(Str_Ab12Cd) \o <<47, 100, 101, 118>>,
     Str_tmp_dot_tmp \o <<88, 121, 51, 52, 90, 119>>,
     <<47>>,
     <<47, 104, 111, 109, 101>>}

\* prepare_try_umount() with mounts the mount points of /proc/mounts: the
\* mount points handed to umount_root_path
prepare_try_umount(mounts) ==
    {mount_path \in mounts : starts_with(mount_path, Str_tmp_dot_tmp)}

\* what get_partition_table_type can report
TableKinds == {"gpt", "msdos", "loop"}

\* memory sizes, in whole GiB, for get_recommand_swap_size
MaxMemGiB == 40

\* memory sizes for is_enable_hibernation, in MiB: whole GiB and not
MaxHibMemGiB == 2
HibMemSizes ==
    {g * MiBPerGiB + d : g \in 1..MaxHibMemGiB, d \in {0, 1, 512}}

\* swapfile sizes the operator asks for, in MiB
MaxCandidateMiB == 4200

\* filesystem names handed to get_recommended_fs_type
FsNames == {"ext4", "xfs", "btrfs", "f2fs", "ext2", "ext3", "ntfs", "vfat",
            "swap", "none", ""}

Call(f, args) == [f |-> f, args |-> args, done |-> FALSE, out |-> <<>>]

\* the calls: the function's name with arguments from the sets above
Calls(c) ==
    \/ \E t \in TableKinds, p \in PartIds :
          c = Call("mbr_is_primary_partition", <<t, p>>)
    \/ \E t \in TableKinds, e \in BOOLEAN :
          c = Call("right_combine", <<t, e>>)
    \/ \E m \in 0..MaxMemGiB :
          c = Call("get_recommand_swap_size", <<m>>)
    \/ \E size \in 0..MaxCandidateMiB, m \in HibMemSizes :
          c = Call("is_enable_hibernation", <<size, m>>)
    \/ \E t \in FsNames :
          c = Call("get_recommended_fs_type", <<t>>)
    \/ \E p \in PartIds, t \in FsNames, use_ext4 \in BOOLEAN :
          c = Call("fill_fs_type", <<[id |-> p, fs |-> t], use_ext4>>)
    \/ \E name \in Names :
          \/ c = Call("is_valid_hostname", <<name>>)
          \/ c = Call("is_acceptable_username", <<name>>)
    \/ \E m \in Sessions, is_efi_booted \in BOOLEAN,
          first \in StaleFdOutcomes, second \in StaleFdOutcomes :
          c = Call("umount_all", <<m, is_efi_booted, first, second>>)
    \/ \E partition \in OptionalPartitions, native_ok \in BOOLEAN :
          c = Call("mount_root_path", <<partition, native_ok>>)
    \/ \E partition \in OptionalPartitions, tool \in ToolRuns :
          c = Call("format_partition", <<partition, tool>>)
    \/ \E is_efi_booted \in BOOLEAN, k \in 0..Len(BIND_MOUNTS) :
          c = Call("setup_bind_mounts", <<CleanSession, is_efi_booted, k>>)
    \/ \E m \in Sessions :
          c = Call("remove_bind_mounts", <<m>>)
    \/ \E is_efi_booted \in BOOLEAN, k \in 0..Len(BIND_MOUNTS),
          outcome \in StaleFdOutcomes :
          c = Call("dive_into_guest",
                   <<[CleanSession EXCEPT !.rootMnt = TRUE], is_efi_booted,
                     k, outcome>>)
    \/ \E cwd \in {"host", "other"}, dive_failing \in 0..2,
          escape_failing \in 0..3 :
          c = Call("escape_chroot", <<cwd, dive_failing, escape_failing>>)
    \/ \E device_path \in {None, Some(DevicePath)},
          fs_type \in FstabFsNames,
          partition_id \in {None, Some("uuid")} :
          c = Call("fstab_entries",
                   <<device_path, fs_type, Some("/"), partition_id>>)
    \/ \E step \in ForwardToolSteps :
          \E statuses \in [DOMAIN StepTools(step) -> ExitStatuses] :
             c = Call("run_step", <<step, statuses>>)
    \/ \E size \in SwapFileSizes, use_swap \in BOOLEAN :
          c = Call("create_swapfile", <<size, use_swap>>)
    \/ \E mounts \in SUBSET MountPoints :
          c = Call("prepare_try_umount", <<mounts>>)

InitFn ==
    /\ Calls(call)
    /\ layers = <<>>
    /\ lastCfg = NoFile
    /\ efi = IF call.f \in {"umount_all", "setup_bind_mounts",
                            "dive_into_guest"}
             THEN call.args[2] ELSE FALSE
    /\ table = "gpt"
    /\ alive = TRUE
    /\ ms = CleanSession
    /\ surfaced = "none"
    /\ ThreadsOff
    /\ MainOff

fnFrame == <<wizardVars, efi, table, alive, tuiVars, ms, surfaced, mainVars>>

Return(value) ==
    /\ call' = [call EXCEPT !.done = TRUE, !.out = value]
    /\ UNCHANGED fnFrame

Called(f) == call.f = f /\ ~call.done
Returned(f) == call.f = f /\ call.done

\* the wizard's call for the selected partition call.args[2]: the argument
\* is current_partition.parent_path
ApplyMbrIsPrimaryPartition ==
    /\ Called("mbr_is_primary_partition")
    /\ Return(mbr_is_primary_partition(DevicePath, call.args[1]))

ApplyRightCombine ==
    /\ Called("right_combine")
    /\ LET result == right_combine(call.args[1], call.args[2])
       IN  Return([result |-> result,
                   error  |-> IF result = "ok" THEN <<>>
                              ELSE right_combine_error(call.args[1],
                                                       call.args[2])])

ApplyGetRecommandSwapSize ==
    /\ Called("get_recommand_swap_size")
    /\ Return(get_recommand_swap_size(call.args[1]))

ApplyIsEnableHibernation ==
    /\ Called("is_enable_hibernation")
    /\ Return(is_enable_hibernation_mib(call.args[1], call.args[2]))

ApplyGetRecommendedFsType ==
    /\ Called("get_recommended_fs_type")
    /\ Return(get_recommended_fs_type(call.args[1]))

ApplyFillFsType ==
    /\ Called("fill_fs_type")
    /\ Return(fill_fs_type(call.args[1], call.args[2]))

ApplyIsValidHostname ==
    /\ Called("is_valid_hostname")
    /\ Return(is_valid_hostname(call.args[1]))

ApplyIsAcceptableUsername ==
    /\ Called("is_acceptable_username")
    /\ Return(is_acceptable_username(call.args[1]))

\* umount_all(&tempdir, root_fd) of one thread of start_install, then the
\* same call again (of the other thread)
ApplyUmountAllTwice ==
    /\ Called("umount_all")
    /\ LET once == umount_all(call.args[1], start_install_root_fd,
                              call.args[3])
       IN  Return([once  |-> once,
                   twice |-> umount_all(once, start_install_root_fd,
                                        call.args[4])])

ApplyMountRootPath ==
    /\ Called("mount_root_path")
    /\ Return(mount_root_path(call.args[1], call.args[2]))

ApplyFormatPartition ==
    /\ Called("format_partition")
    /\ Return(format_partition(call.args[1], call.args[2]))

\* setup_bind_mounts(root) with the root mounted, its first call.args[3]
\* mounts succeeding
ApplySetupBindMounts ==
    /\ Called("setup_bind_mounts")
    /\ LET k == call.args[3]
       IN  Return([result  |-> IF k = Len(BIND_MOUNTS) THEN "ok"
                               ELSE "mount_failed",
                   mounts  |-> bind_mount_calls(k),
                   session |-> setup_bind_mounts(
                                  [call.args[1] EXCEPT !.rootMnt = TRUE],
                                  k)])

\* remove_bind_mounts(root) on the session call.args[1]
ApplyRemoveBindMounts ==
    /\ Called("remove_bind_mounts")
    /\ Return([calls   |-> remove_bind_mounts_calls(call.args[1]),
               session |-> remove_bind_mounts(call.args[1])])

\* dive_into_guest(root) on the host with the root mounted, the first
\* call.args[3] mounts of setup_bind_mounts succeeding; then either
\* remove_bind_mounts(root), or umount_all(&tempdir, root_fd) as
\* start_install calls it
ApplyDiveIntoGuest ==
    /\ Called("dive_into_guest")
    /\ LET dived == dive_into_guest(call.args[1], call.args[3])
       IN  Return([mounted    |-> setup_bind_mounts(call.args[1],
                                                    call.args[3]),
                   dived      |-> dived,
                   removed    |-> remove_bind_mounts(dived),
                   umount_all |-> umount_all(dived, start_install_root_fd,
                                             call.args[4])])

\* get_dir_fd("/") on the host, dive_into_guest(root), then
\* escape_chroot of that descriptor
ApplyEscapeChroot ==
    /\ Called("escape_chroot")
    /\ LET host  == [root |-> "host", cwd |-> call.args[1]]
           dive  == dive_into_guest_steps(host, call.args[2])
           guest == After(host, dive)
           steps == escape_chroot_steps(guest, host.root, call.args[3])
       IN  Return([anchor |-> host.root,
                   dive   |-> dive,
                   before |-> guest,
                   steps  |-> steps,
                   after  |-> After(guest, steps)])

\* fstab_entries(partition.path.as_ref(), fs_type, Some(mount_path)) of
\* genfstab_to_file
ApplyFstabEntries ==
    /\ Called("fstab_entries")
    /\ Return(fstab_entries(call.args[1], call.args[2], call.args[3],
                            call.args[4]))

\* one forward step that runs external tools
ApplyRunStep ==
    /\ Called("run_step")
    /\ Return(run_step(call.args[1], call.args[2]))

ApplyCreateSwapfile ==
    /\ Called("create_swapfile")
    /\ Return(create_swapfile(call.args[1], call.args[2]))

ApplyPrepareTryUmount ==
    /\ Called("prepare_try_umount")
    /\ Return(prepare_try_umount(call.args[1]))

NextFn ==
    \/ ApplyMbrIsPrimaryPartition
    \/ ApplyRightCombine
    \/ ApplyGetRecommandSwapSize
    \/ ApplyIsEnableHibernation
    \/ ApplyGetRecommendedFsType
    \/ ApplyFillFsType
    \/ ApplyIsValidHostname
    \/ ApplyIsAcceptableUsername
    \/ ApplyUmountAllTwice
    \/ ApplyMountRootPath
    \/ ApplyFormatPartition
    \/ ApplySetupBindMounts
    \/ ApplyRemoveBindMounts
    \/ ApplyDiveIntoGuest
    \/ ApplyEscapeChroot
    \/ ApplyFstabEntries
    \/ ApplyRunStep
    \/ ApplyCreateSwapfile
    \/ ApplyPrepareTryUmount

SpecFn == InitFn /\ [][NextFn]_vars

\* C14: called as the wizard calls it, with the parent device of the
\* selected partition, mbr_is_primary_partition succeeds when the table is
\* not MBR; on an MBR table it fails with the non-primary error exactly
\* when the selected partition is not a primary one, and succeeds when it
\* is.
C14_PrimaryTestFollowsSelectedPartition ==
    Returned("mbr_is_primary_partition") =>
        LET tbl == call.args[1]
            selected == call.args[2]
        IN  call.out = IF tbl # "msdos" THEN "ok"
                       ELSE IF PartType(selected) # "primary"
                       THEN "non_primary"
                       ELSE "ok"

\* C15: right_combine (not powerpc64) succeeds if and only if the table is
\* GPT on a machine booted through EFI, or MBR on a machine booted through
\* legacy BIOS; every other pair of table kind and firmware mode fails with
\* the mismatch error.
C15_TableMatchesFirmware ==
    Returned("right_combine") =>
        call.out.result =
            IF <<call.args[1], call.args[2]>> \in
                   {<<"gpt", TRUE>>, <<"msdos", FALSE>>}
            THEN "ok" ELSE "mismatch"

\* a GPT table on a legacy-BIOS machine was refused
C15_Witness ==
    /\ Returned("right_combine")
    /\ call.args = <<"gpt", FALSE>>
    /\ call.out.result = "mismatch"

\* C16: for each mismatched pair the error of right_combine names the table
\* kind that was found, the firmware mode, and the table to switch to, which
\* is GPT on an EFI machine and MBR on a legacy-BIOS machine.
C16_MismatchNamesRightTable ==
    (Returned("right_combine") /\ call.out.result = "mismatch") =>
        /\ call.out.error.table = call.args[1]
        /\ call.out.error.firmware = (IF call.args[2] THEN "EFI" ELSE "BIOS")
        /\ call.out.error.right = (IF call.args[2] THEN "GPT" ELSE "MBR")

\* C17: for every memory size of m whole GiB, get_recommand_swap_size
\* returns round(f(m)) GiB, where f(m) is 1.3 m + 0.7 for m <= 5,
\* 1.1543 m + 1.36328 for 5 < m <= 32 and 1.009945 m + 16.087529 for
\* m > 32; it never fails.  (round(x) is the whole number within one half
\* of x; the sizes are compared in millionths of a GiB.)
C17_RecommendedSwapIsRoundedFormula ==
    Returned("get_recommand_swap_size") =>
        LET m == call.args[1]
            f == IF m <= 5 THEN 1300000 * m + 700000
                 ELSE IF m <= 32 THEN 1154300 * m + 1363280
                 ELSE 1009945 * m + 16087529
            d == 1000000 * call.out - f
        IN  /\ call.out \in Nat
            /\ -500000 < d /\ d <= 500000

\* 32 GiB of memory: the last size of the second piece, 38 GiB of swap
C17_Witness ==
    /\ Returned("get_recommand_swap_size")
    /\ call.args[1] = 32
    /\ call.out = 38

\* C18: the recommendation is continuous, in GiB-rounded terms, at the piece
\* boundaries m = 5 and m = 32: the two pieces of the formula that meet at
\* the boundary, evaluated there and rounded, differ by at most 1 GiB.
C18_PiecesMeetAtBoundaries ==
    Returned("get_recommand_swap_size") =>
        LET m == call.args[1]
            below == IF m = 5 THEN 1 ELSE 2
            gap == round(swap_size_piece(below + 1, m))
                     - round(swap_size_piece(below, m))
        IN  m \in {5, 32} => (-1 <= gap /\ gap <= 1)

\* C19: for every swapfile size asked for, is_enable_hibernation fails with
\* the too-small error when the size is below the floor (the recommended
\* size less the machine's memory), returns false when the size is at least
\* the floor and below the recommended size, and returns true when it is at
\* least the recommended size; the recommended size itself gives true and
\* one unit below the floor gives the error.
C19_HibernationByFloorAndRecommended ==
    Returned("is_enable_hibernation") =>
        LET candidate == call.args[1]
            memory == call.args[2]
            recommended ==
                get_recommand_swap_size(memory \div MiBPerGiB) * MiBPerGiB
            floor == recommended - memory
        IN  call.out = IF candidate < floor THEN "too_small"
                       ELSE IF candidate < recommended THEN "false"
                       ELSE "true"

\* 1 GiB and 1 MiB of memory, recommended 2 GiB: exactly that size gives true
C19_Witness ==
    /\ Returned("is_enable_hibernation")
    /\ call.args = <<2048, 1025>>
    /\ call.out = "true"

\* the same machine, one unit below the floor of 1023: too small
C19_WitnessBelowFloor ==
    /\ Returned("is_enable_hibernation")
    /\ call.args = <<1022, 1025>>
    /\ call.out = "too_small"

\* C20: get_recommended_fs_type returns the filesystem it was given when
\* that is one of ext4, xfs, btrfs and f2fs, and ext4 for every other
\* string; the result is always one of the four.
C20_RecommendedFsIsSupported ==
    Returned("get_recommended_fs_type") =>
        LET requested == call.args[1]
            supported == {"ext4", "xfs", "btrfs", "f2fs"}
        IN  /\ call.out = IF requested \in supported THEN requested
                          ELSE "ext4"
            /\ call.out \in supported

\* btrfs is kept
C20_Witness ==
    /\ Returned("get_recommended_fs_type")
    /\ call.args = <<"btrfs">>
    /\ call.out = "btrfs"

\* ext2 is replaced by ext4
C20_WitnessFallback ==
    /\ Returned("get_recommended_fs_type")
    /\ call.args = <<"ext2">>
    /\ call.out = "ext4"

\* C21: fill_fs_type(partition, use_ext4) returns a new partition with the
\* path, parent path and size of the one it was given, and with the
\* filesystem ext4 when use_ext4 is set or the partition has no filesystem,
\* and get_recommended_fs_type of its filesystem otherwise; the partition
\* it was given is unchanged, and the result's filesystem is always present
\* and one of the supported four.
C21_FillFsTypeKeepsPartition ==
    Returned("fill_fs_type") =>
        LET input == call.args[1]
            force_default == call.args[2]
            supported == {"ext4", "xfs", "btrfs", "f2fs"}
        IN  /\ call.out.id = input.id
            /\ call.out.fs = IF force_default \/ input.fs = "none"
                             THEN "ext4"
                             ELSE IF input.fs \in supported THEN input.fs
                             ELSE "ext4"
            /\ call.out.fs \in supported
            /\ input.id \in PartIds /\ input.fs \in FsNames

\* a btrfs partition with use_ext4 set comes back as ext4; the argument
\* still says btrfs
C21_Witness ==
    /\ Returned("fill_fs_type")
    /\ call.args = <<[id |-> 2, fs |-> "btrfs"], TRUE>>
    /\ call.out = [id |-> 2, fs |-> "ext4"]

\* a partition without a filesystem, use_ext4 not set: ext4
C21_WitnessNoKind ==
    /\ Returned("fill_fs_type")
    /\ call.args = <<[id |-> 1, fs |-> "none"], FALSE>>
    /\ call.out = [id |-> 1, fs |-> "ext4"]

\* ASCII letters of either case, ASCII digits, and the space, tab and
\* newline characters
AsciiLetters == (65..90) \cup (97..122)
AsciiDigits == 48..57
SpaceTabNewline == {32, 9, 10}

\* C22: for every string, is_valid_hostname accepts it if and only if it is
\* not empty, does not start with '-', and consists only of ASCII letters
\* of either case, ASCII digits and '-'; so "foo-2e10" and "JellyDimension"
\* are valid and "-invalid", "+invalid" and "invalid_host" are not.
C22_HostnameValidator ==
    Returned("is_valid_hostname") =>
        LET name == call.args[1]
        IN  /\ call.out <=>
                 /\ Len(name) > 0
                 /\ name[1] # 45
                 /\ \A i \in 1..Len(name) :
                       name[i] \in AsciiLetters \cup AsciiDigits \cup {45}
            /\ name \in {Str_foo_2e10, Str_JellyDimension} => call.out
            /\ name \in {Str_dash_invalid, Str_plus_invalid,
                         Str_invalid_host} => ~call.out

\* "JellyDimension" was accepted
C22_Witness ==
    /\ Returned("is_valid_hostname")
    /\ call.args[1] = Str_JellyDimension
    /\ call.out

\* "-invalid" was refused
C22_WitnessLeadingDash ==
    /\ Returned("is_valid_hostname")
    /\ call.args[1] = Str_dash_invalid
    /\ ~call.out

\* C23: for every string, is_acceptable_username rejects it when it is
\* "root" or contains '/', ':' or a whitespace character (space, tab,
\* newline), wherever in the name that character is.
C23_UsernameRejectsRootAndSeparators ==
    Returned("is_acceptable_username") =>
        LET name == call.args[1]
        IN  (\/ name = Str_root
             \/ \E i \in 1..Len(name) :
                   name[i] \in {47, 58} \cup SpaceTabNewline)
                => ~call.out

\* "root" itself was refused
C23_Witness ==
    /\ Returned("is_acceptable_username")
    /\ call.args[1] = Str_root
    /\ ~call.out

\* "ro ot" was refused
C23_WitnessSpaceInside ==
    /\ Returned("is_acceptable_username")
    /\ call.args[1] = Insert(Str_root, 2, 32)
    /\ ~call.out

\* C24: is_acceptable_username accepts every name that is not empty, is not
\* "root", does not start with '-', and contains no uppercase ASCII letter,
\* no whitespace and none of '/', '\', ':' (names made only of letters
\* outside ASCII among them, as the two-character CJK name of the test),
\* and it rejects a name made only of uppercase ASCII letters.
C24_UsernameAcceptsTheRest ==
    Returned("is_acceptable_username") =>
        LET name == call.args[1]
        IN  /\ (/\ Len(name) > 0
                /\ name # Str_root
                /\ name[1] # 45
                /\ \A i \in 1..Len(name) :
                      name[i] \notin (65..90) \cup {32, 9, 10, 12, 13}
                                       \cup {47, 92, 58})
                  => call.out
            /\ (Len(name) > 0 /\ \A i \in 1..Len(name) : name[i] \in 65..90)
                  => ~call.out

\* C25: the rule the user dialog announces is the rule enforced: every name
\* that starts with a lowercase letter a-z and contains only lowercase
\* letters a-z, digits 0-9 and '-', and is not "root", is accepted by
\* is_acceptable_username (and the wizard goes on).
C25_AnnouncedUsernameRuleAccepted ==
    Returned("is_acceptable_username") =>
        LET name == call.args[1]
        IN  (/\ Len(name) > 0
             /\ name[1] \in 97..122
             /\ \A i \in 1..Len(name) :
                   name[i] \in (97..122) \cup AsciiDigits \cup {45}
             /\ name # Str_root)
                => call.out

\* one statement of umount_all taken by a thread that stood at pc and stands
\* at next afterwards: the statements follow each other in the order
\* escape_chroot, unmount of the EFI mount, swapoff, unmount of the root
\* mount, then the caller's next statement (after); the EFI mount is only
\* touched on an EFI machine; and each statement acts on the session as it
\* finds it, whatever became of the statements before it
UmountAllStatement(pc, next, after) ==
    (pc \in UmountAllPcs /\ next # pc) =>
        /\ pc = "ua_escape" => next = "ua_efi"
        /\ pc = "ua_efi" =>
              /\ next = "ua_swap"
              /\ ~efi => ms' = ms
              /\ (efi /\ ms.root = "host") => ~ms'.efiMnt
        /\ pc = "ua_swap" =>
              /\ next = "ua_root"
              /\ ms.root = "host" => ~ms'.swap
        /\ pc = "ua_root" =>
              /\ next = after
              /\ ms.root = "host" => ~ms'.rootMnt

\* C26: umount_all always attempts its four steps in the order
\* escape_chroot, unmount of the EFI mount (only when EFI-booted), swapoff,
\* unmount of the root mount; a failed step never keeps the later ones from
\* being attempted, and umount_all reports no error: its caller goes on
\* with the statement after the call.
C26_UmountAllBestEffortInOrder ==
    [][/\ UmountAllStatement(xpc, xpc', "send_quit")
       /\ UmountAllStatement(cpc, cpc', "report")]_vars

\* the consumer is through umount_all although its escape_chroot failed and
\* the unmounts after it could not find their paths
C26_Witness ==
    /\ cpc = "report"
    /\ ms.root # "host"
    /\ ms.rootMnt

\* C27: umount_all is safe to repeat: from every mount session, calling it
\* a second time (by the same or the other thread of start_install) leaves
\* the process root and the set of active mounts that calling it once left.
C27_UmountAllTwiceIsOnce ==
    Returned("umount_all") =>
        /\ call.out.twice.root = call.out.once.root
        /\ call.out.twice.rootMnt = call.out.once.rootMnt
        /\ call.out.twice.efiMnt = call.out.once.efiMnt
        /\ call.out.twice.binds = call.out.once.binds
        /\ call.out.twice.swap = call.out.once.swap

\* C28: mount_root_path(partition, target) fails with its "failed to
\* determine partition" error, without calling the native mount, whenever
\* the partition has no device path or no filesystem; otherwise it mounts
\* the device with the partition's filesystem, except that every filesystem
\* whose name starts with "fat" is mounted as vfat, and with no mount flags.
C28_MountGuardAndFatAsVfat ==
    Returned("mount_root_path") =>
        LET partition == call.args[1]
            kind == partition.fs_type[1]
            fat == Len(kind) >= 3 /\ kind[1] = 102 /\ kind[2] = 97
                   /\ kind[3] = 116
        IN  IF partition.path = <<>> \/ partition.fs_type = <<>>
            THEN /\ call.out.result = "failed_to_determine_partition"
                 /\ call.out.mounts = <<>>
            ELSE /\ Len(call.out.mounts) = 1
                 /\ call.out.mounts[1].source = partition.path
                 /\ call.out.mounts[1].fstype =
                       <<IF fat THEN <<118, 102, 97, 116>> ELSE kind>>
                 /\ call.out.mounts[1].flags = {}
                 /\ call.out.result # "failed_to_determine_partition"

\* a fat32 partition was mounted as vfat
C28_Witness ==
    /\ Returned("mount_root_path")
    /\ call.args[1].fs_type = <<<<102, 97, 116, 51, 50>>>>
    /\ call.args[1].path # <<>>
    /\ call.out.result = "ok"
    /\ call.out.mounts[1].fstype = <<<<118, 102, 97, 116>>>>

\* a partition without a filesystem: the error, and no mount
C28_WitnessNoKind ==
    /\ Returned("mount_root_path")
    /\ call.args[1].fs_type = <<>>
    /\ call.args[1].path # <<>>
    /\ call.out.mounts = <<>>

\* C29: format_partition(partition) fails with its "could not find the
\* partition" error, without running any formatting tool, when the
\* partition has no device path; when the tool runs and exits non-zero it
\* fails with the "failed to format" error, which carries the tool's
\* stderr; the tool is mkfs.<filesystem> for the partition's filesystem, and
\* mkfs.ext4 when the partition has none.
C29_FormatErrorsAndTool ==
    Returned("format_partition") =>
        LET partition == call.args[1]
            tool == call.args[2]
            mkfs == <<109, 107, 102, 115, 46>>
        IN  IF partition.path = <<>>
            THEN /\ call.out.result = "could_not_find_partition"
                 /\ call.out.ran = <<>>
            ELSE /\ Len(call.out.ran) = 1
                 /\ call.out.ran[1].program =
                       mkfs \o (IF partition.fs_type = <<>>
                                THEN <<101, 120, 116, 52>>
                                ELSE partition.fs_type[1])
                 /\ call.out.ran[1].device = partition.path[1]
                 /\ tool.status = "failure" =>
                       /\ call.out.result = "failed_to_format"
                       /\ call.out.stderr = <<tool.stderr>>
                 /\ tool.status = "success" => call.out.result = "ok"

\* mkfs.btrfs ran on the device and failed: the error carries its stderr
C29_Witness ==
    /\ Returned("format_partition")
    /\ call.args[1].path # <<>>
    /\ call.args[1].fs_type = <<<<98, 116, 114, 102, 115>>>>
    /\ call.args[2] = [status |-> "failure",
                       stderr |-> "mkfs: cannot open device"]
    /\ call.out.result = "failed_to_format"
    /\ call.out.stderr = <<"mkfs: cannot open device">>

\* no device path: nothing ran
C29_WitnessNoPath ==
    /\ Returned("format_partition")
    /\ call.args[1].path = <<>>
    /\ call.out.ran = <<>>

\* where the EFI variable store is mounted
EfiVariableStore == "/sys/firmware/efi/efivars"

\* C30: setup_bind_mounts(root), when it succeeds, has bind-mounted each of
\* /dev, /proc, /sys and /run/udev onto the same path below root, and on an
\* EFI-booted machine it has bind-mounted the EFI variable store as well.
C30_BindMountsWithEfiVariableStore ==
    (Returned("setup_bind_mounts") /\ call.out.result = "ok") =>
        LET mounts == call.out.mounts
            Bound(path) ==
                \E i \in 1..Len(mounts) :
                    /\ mounts[i].source = path
                    /\ mounts[i].target = [below |-> "root", path |-> path]
                    /\ "MS_BIND" \in mounts[i].flags
        IN  /\ \A path \in {"/dev", "/proc", "/sys", "/run/udev"} :
                  Bound(path)
            /\ call.args[2] => Bound(EfiVariableStore)

\* C31: remove_bind_mounts is best-effort: it tries to unmount every path
\* that setup_bind_mounts creates, also when unmounting an earlier one of
\* them fails (and it is called only while the process root is the host
\* root).
C31_RemoveBindMountsTriesEveryPath ==
    Returned("remove_bind_mounts") =>
        \A i \in BindIds :
            \E n \in DOMAIN call.out.calls :
                call.out.calls[n] = BIND_MOUNTS[i]

\* C32: when setup_bind_mounts fails after mounting k of its n paths
\* (k < n), those k mounts are active, dive_into_guest leaves the process
\* root as it was, and a following remove_bind_mounts or umount_all leaves
\* none of the k mounts active.
C32_PartialBindMountsAreRemoved ==
    Returned("dive_into_guest") /\ call.args[3] < Len(BIND_MOUNTS) =>
        LET k == call.args[3]
        IN  /\ call.out.mounted.binds = 1..k
            /\ call.out.dived.binds = 1..k
            /\ call.out.dived.root = call.args[1].root
            /\ call.out.removed.binds \cap (1..k) = {}
            /\ call.out.umount_all.binds \cap (1..k) = {}

\* C33: with an anchor taken on the host before dive_into_guest,
\* dive_into_guest followed by escape_chroot(anchor) brings the process
\* root and the working directory back to the host root; escape_chroot
\* moves the working directory to the anchor, then changes the root, then
\* resets the working directory; and when its first step fails the process
\* root is unchanged.
C33_EscapeChrootUndoesDive ==
    Returned("escape_chroot") =>
        LET out == call.out
            n   == Len(out.steps)
        IN  /\ call.args[2] = 0 /\ call.args[3] = 0 =>
                 /\ out.before = [root |-> "guest", cwd |-> "guest"]
                 /\ out.after = [root |-> "host", cwd |-> "host"]
            /\ n >= 1 => /\ out.steps[1].cwd = out.anchor
                         /\ out.steps[1].root = out.before.root
            /\ n >= 2 => /\ out.steps[2].root = out.anchor
                         /\ out.steps[2].cwd = out.anchor
            /\ n >= 3 => out.steps[3].cwd = out.steps[3].root
            /\ call.args[3] = 1 => out.after = out.before

\* a process in the guest root, started from another working directory,
\* has escaped
C33_Witness ==
    /\ Returned("escape_chroot")
    /\ call.args = <<"other", 0, 0>>
    /\ call.out.before.root = "guest"
    /\ Len(call.out.steps) = 3
    /\ call.out.after.root = "host"

\* the filesystem names the statement about fstab_entries lists
RecognisedFsNames ==
    {"vfat", "fat16", "fat32", "ext4", "btrfs", "xfs", "f2fs", "swap"}

\* C34: for a device, fstab_entries fails with the unsupported-filesystem
\* error, before any lookup of the partition id, for every filesystem name
\* outside vfat, fat16, fat32, ext4, btrfs, xfs, f2fs and swap; for a name
\* of that set it fails with the no-id error when the device has no id, and
\* otherwise writes one entry whose option is "sw" for swap and "defaults"
\* for the others; every name get_recommended_fs_type returns is in the
\* set.
C34_FstabEntryByFilesystemName ==
    /\ Returned("fstab_entries") /\ call.args[1] # None =>
         LET fs_type == call.args[2]
             out     == call.out
         IN  /\ fs_type \notin RecognisedFsNames =>
                  /\ out.result = "UnsupportedFilesystem"
                  /\ out.lookups = <<>>
             /\ fs_type \in RecognisedFsNames /\ call.args[4] = None =>
                  out.result = "NoUuid"
             /\ fs_type \in RecognisedFsNames /\ call.args[4] # None =>
                  /\ out.result = "Ok"
                  /\ Len(out.entries) = 1
                  /\ out.entries[1].option =
                        IF fs_type = "swap" THEN "sw" ELSE "defaults"
             /\ out.result # "Ok" => out.entries = <<>>
    /\ Returned("get_recommended_fs_type") =>
         /\ call.out \in {"ext4", "xfs", "btrfs", "f2fs"}
         /\ call.out \in RecognisedFsNames
         /\ fstab_fs_type(call.out) # None

\* an unrecognised name on a device without an id is refused for its name
C34_Witness ==
    /\ Returned("fstab_entries")
    /\ call.args[1] # None
    /\ call.args[2] = "ntfs"
    /\ call.args[4] = None
    /\ call.out.result = "UnsupportedFilesystem"

\* C35: every external tool that a forward step runs and that exits
\* non-zero makes the step fail with the tool-failure error; no exit
\* status is ignored.
C35_NonZeroExitFailsTheStep ==
    Returned("run_step") =>
        LET ran == call.out.ran
        IN  (\E i \in DOMAIN ran : call.args[2][i] = "failure")
                => call.out.result = "ToolFailure"

\* C36: a partition selection that either validator rejects is not
\* accepted: the wizard stays on the partition screen, no configuration
\* takes the partition, and no format-confirmation dialog (nor any screen
\* after it) is offered.
C36_RejectedSelectionIsNotAccepted ==
    (\/ mbr_is_primary_partition(DevicePath, table) # "ok"
     \/ right_combine(table, efi) # "ok") =>
        \A i \in DOMAIN layers :
            /\ layers[i].k \notin AfterValidators
            /\ layers[i].c.part = NoPart

\* the partition of the configuration in hand: that of the top layer, or,
\* while a format warning asks about another one, that of the layer the
\* warning lies on
CurrentPartition(stack) ==
    IF stack[Len(stack)].k # "fmt_warn" THEN stack[Len(stack)].c.part
    ELSE stack[Len(stack) - 1].c.part

\* C37: on every path of the wizard (a reloaded configuration included,
\* which carries no partition) the pipeline starts only after the operator
\* has selected the target partition, confirmed the format warning that
\* names it with its filesystem, and then pressed "Proceed": the partition
\* of the configuration in hand changes only by "OK" on a format warning,
\* to the partition that warning names, and the request handed to the
\* pipeline by "Proceed" carries it.
C37_PipelineFormatsTheConfirmedPartition ==
    /\ [](wpc # "Idle" =>
            req.part # NoPart /\ req.part = CurrentPartition(layers))
    /\ [][/\ CurrentPartition(layers') # CurrentPartition(layers) =>
               /\ OnTop("fmt_warn")
               /\ layers' # Pop(layers)
               /\ Top.c.part.id \in PartIds
               /\ Top.c.part.fs \in ALLOWED_FS_TYPE
               /\ layers'[Len(layers')].k \in {"user", "lastcfg"}
               /\ CurrentPartition(layers') = Top.c.part
          /\ wpc = "Idle" /\ wpc' # "Idle" =>
               /\ OnTop("summary")
               /\ req' = Top.c
               /\ req'.part = CurrentPartition(layers)
               /\ wpc' = "Formatting"]_vars

\* the pipeline has started on the partition confirmed after an earlier
\* one: the screens below still hold the earlier one
C37_Witness ==
    /\ wpc = "Formatting"
    /\ OnTop("installing")
    /\ req.part.id \in PartIds
    /\ \E i \in DOMAIN layers :
          layers[i].c.part # req.part

\* C38: with swap enabled, create_swapfile allocates a file of exactly the
\* requested number of bytes, for every size the wizard accepts (the
\* recommended sizes, 2 GiB and more, included); with swap disabled it
\* creates no file and runs no tool.
C38_SwapfileHasRequestedSize ==
    Returned("create_swapfile") =>
        IF call.args[2]
        THEN call.out.file = Some(call.args[1])
        ELSE call.out.file = None /\ call.out.tools = <<>>

\* C39: a swapfile size, recommended or typed, is accepted only if
\* install_size + swap size <= partition size - DEFAULT_EMPTY_SIZE, also
\* when the partition is smaller than DEFAULT_EMPTY_SIZE: the summary is
\* never shown for a configuration whose swapfile does not leave that much
\* of the partition free.
C39_AcceptedSwapLeavesTheReserve ==
    OnTop("summary") /\ Top.c.swap > 0 =>
        install_size(Top.c.variant) + Top.c.swap + DEFAULT_EMPTY_SIZE
            <= PartSize(Top.c.part.id)

\* C40: prepare_try_umount unmounts every mount that an earlier session of
\* the installer left: every entry of the mount table whose mount point
\* lies under a session mount directory as start_install creates it is
\* unmounted, and no other mount is touched.
C40_PrepareUnmountsSessionMountsOnly ==
    Returned("prepare_try_umount") =>
        call.out =
            {mount_path \in call.args[1] :
                starts_with(mount_path, Str_tmp_slash \o Str_dot_dkmount)}

====
